---- MODULE Spec2Model ----
(***************************************************************************)
(* Graph-ordered batch insertion (lib/queryBuilder/graphInserter).         *)
(*                                                                         *)
(* The model follows GraphInserter.execute: batches of table insertions    *)
(* are selected from a dependency graph, handed to an insert callback,     *)
(* and a final batch of many-to-many join rows is synthesized before the    *)
(* graph is finalized and returned.                                        *)
(*                                                                         *)
(* JavaScript values are modelled as strings (a number by its decimal      *)
(* representation); a property holding `undefined` is modelled as an       *)
(* absent key.  An entity object is a function from its keys to values and *)
(* is addressed by the index of its graph node; a join row is a sequence   *)
(* of key/value pairs, which keeps the key order Object.keys reports.      *)
(***************************************************************************)
EXTENDS Integers, Sequences, FiniteSets, TLC

VARIABLES
    graph,            \* this.graph: the DependencyGraph (static part)
    models,           \* this.models: the input objects given to the constructor
    model,            \* node.model of every node: the object's properties
    handled,          \* node.handled
    numHandledNeeds,  \* node.numHandledNeeds
    done,             \* this.done
    pc,               \* state of the promise returned by execute
    calls,            \* the insert callback invocations, in invocation order
    events,           \* history: invoke / resolve / reject / select / finalize
    nextId,           \* the store's next generated identifier, per table
    result,           \* the value execute resolved with
    transactionCall,  \* a call of transaction(): its arguments and outcome
    getterCall,       \* a call of an id getter: its columns, row and result
    columnInfo,       \* RelationJoinBuilder.columnInfo: the cache, per table
    requests,         \* the knex(table).columnInfo() requests issued
    fetches,          \* the fetchColumnInfo calls and what each awaits
    query,            \* the eager query: expression, relations, selections, data
    builder,          \* the RelationJoinBuilder: opt, encodings, decodings, pathInfo
    statement,        \* the selects and joins put on the knex builder
    phase,            \* how far the eager query has got
    dbRows,           \* the rows the database returned
    tree,             \* what rowsToTree returned
    copy              \* what clone() returned: its opt and its encIdx

vars == <<graph, models, model, handled, numHandledNeeds, done, pc, calls,
          events, nextId, result>>

\* The state outside the graph inserter, which no inserter step touches
cacheVars == <<columnInfo, requests, fetches>>

joinVars == <<cacheVars, query, builder, statement, phase, dbRows, tree, copy>>

outsideInserter == <<transactionCall, getterCall, joinVars>>

allVars == <<vars, outsideInserter>>

(***************************************************************************)
(* Bounds and program constants                                            *)
(***************************************************************************)
\* The largest number of objects in an input graph
MaxNodes == 3

\* The tables of the entity types of the input objects
Tables == {"A", "B"}

\* The values an extra join-table property of an input object may have
ExtraValues == {"x", "undefined"}

uidProp == "#id"

uidRefProp == "#ref"

idProp == "id"

RelKinds == {"HasMany", "BelongsToOne", "ManyToMany"}

(***************************************************************************)
(* Sequence helpers                                                        *)
(***************************************************************************)
Ids(n) == [i \in 1..n |-> i]

Range(s) == {s[i] : i \in DOMAIN s}

RECURSIVE ConcatFrom(_, _)
ConcatFrom(ss, i) == IF i > Len(ss) THEN <<>> ELSE ss[i] \o ConcatFrom(ss, i + 1)

\* The sequences of ss joined in order
Concat(ss) == ConcatFrom(ss, 1)

\* _.uniqBy: the first element for every value of the iteratee, in order;
\* by[i] is the iteratee's value for s[i].
uniqBy(s, by) ==
    LET first == SelectSeq(Ids(Len(s)), LAMBDA i : \A j \in 1..(i - 1) : by[j] # by[i])
    IN  [k \in 1..Len(first) |-> s[first[k]]]

\* _.uniq: the first occurrence of every element, in order
Uniq(s) == uniqBy(s, s)

(***************************************************************************)
(* Objects                                                                 *)
(***************************************************************************)
Has(obj, key) == key \in DOMAIN obj

SetProp(obj, key, value) ==
    [k \in (DOMAIN obj) \cup {key} |-> IF k = key THEN value ELSE obj[k]]

\* Keys of the model that start with '$'; none of the modelled keys does.
DollarKeys == {"$beforeInsert", "$afterInsert"}

omitArray(obj, keys) ==
    [k \in {kk \in DOMAIN obj : ~(kk \in keys /\ kk \notin DollarKeys)} |-> obj[k]]

FkProp(c) == "fk" \o ToString(c)

RelProp(c) == "rel" \o ToString(c)

Uid(i) == "u" \o ToString(i)

\* modelClass.getRelations(): the relation names of the entity types
Relations == {RelProp(c) : c \in 1..(MaxNodes + 1)}

(***************************************************************************)
(* The nested input graph and the DependencyGraph built from it            *)
(*                                                                         *)
(* An input is a forest of nested objects in depth-first order: object i   *)
(* is a top-level input object (parent 0) or is nested in object parent[i] *)
(* under a relation of kind kind[i].  ref[i] # 0 makes object i a bare      *)
(* reference (#ref) to object ref[i]; a bare reference nests nothing.      *)
(* Every nesting is its own relation with its own foreign-key property.    *)
(***************************************************************************)
RECURSIVE AncOrSelf(_, _)
AncOrSelf(parent, j) ==
    IF j = 0 THEN {} ELSE {j} \cup AncOrSelf(parent, parent[j])

\* The sequences of length n whose i-th element is drawn from allowed[i].
RECURSIVE Product(_, _)
Product(n, allowed) ==
    IF n = 0 THEN {<<>>}
    ELSE {Append(f, x) : f \in Product(n - 1, allowed), x \in allowed[n]}

\* Depth-first input order: an object is a top-level object or is nested in
\* the previous object or in one of that object's ancestors.
RECURSIVE ParentFns(_)
ParentFns(n) ==
    IF n = 1 THEN {<<0>>}
    ELSE UNION { {Append(p, x) : x \in {0} \cup AncOrSelf(p, n - 1)} :
                 p \in ParentFns(n - 1) }

KindFns(n, p) ==
    Product(n, [i \in 1..n |-> IF p[i] = 0 THEN {"root"} ELSE RelKinds])

\* The first table name is fixed: the table names are interchangeable.
TableFns(n) ==
    Product(n, [i \in 1..n |-> IF i = 1 THEN {"A"} ELSE Tables])

IsLeaf(n, p, i) == \A c \in 1..n : p[c] # i

RefFns(n, p, t) ==
    { r \in Product(n, [i \in 1..n |->
                {0} \cup (IF p[i] # 0 /\ IsLeaf(n, p, i)
                          THEN {j \in 1..n : j # i /\ t[j] = t[i]}
                          ELSE {})]) :
        \A i \in 1..n : r[i] # 0 => r[r[i]] = 0 }

\* The children of node i nested under a relation of kind k, in input order.
Children(s, i, k) ==
    SelectSeq(Ids(s.n), LAMBDA c : s.parent[c] = i /\ s.kind[c] = k)

\* The nodes that are bare references to node a, in node order.
RefsTo(s, a) == SelectSeq(Ids(s.n), LAMBDA r : s.ref[r] = a)

Dep(node, c) == [node |-> node, prop |-> FkProp(c)]

\* buildForModel: the dependencies a node gets from its own nesting.
RawNeeds(s, i) ==
    (IF s.kind[i] = "HasMany" THEN <<Dep(s.parent[i], i)>> ELSE <<>>)
    \o [k \in 1..Len(Children(s, i, "BelongsToOne")) |->
            Dep(Children(s, i, "BelongsToOne")[k], Children(s, i, "BelongsToOne")[k])]

RawIsNeededBy(s, i) ==
    (IF s.kind[i] = "BelongsToOne" THEN <<Dep(s.parent[i], i)>> ELSE <<>>)
    \o [k \in 1..Len(Children(s, i, "HasMany")) |->
            Dep(Children(s, i, "HasMany")[k], Children(s, i, "HasMany")[k])]

RawConnections(s, i) ==
    [k \in 1..Len(Children(s, i, "ManyToMany")) |->
        [node |-> Children(s, i, "ManyToMany")[k], refNode |-> 0]]

Actual(s, i) == IF s.ref[i] # 0 THEN s.ref[i] ELSE i

\* solveReferences: a reference node's edges are merged into the node it
\* refers to, and every edge that points at a reference node is redirected.
MergedDeps(s, i, raw) ==
    LET own  == raw[i]
        refs == RefsTo(s, i)
        all  == own \o Concat([k \in 1..Len(refs) |-> raw[refs[k]]])
    IN  [k \in 1..Len(all) |-> [all[k] EXCEPT !.node = Actual(s, all[k].node)]]

MergedConnections(s, i) ==
    LET all == RawConnections(s, i)
    IN  [k \in 1..Len(all) |->
            IF s.ref[all[k].node] # 0
            THEN [node |-> s.ref[all[k].node], refNode |-> all[k].node]
            ELSE all[k]]

DependencyGraph(s) ==
    [ n          |-> s.n,
      parent     |-> s.parent,
      kind       |-> s.kind,
      tableName  |-> s.table,
      ref        |-> s.ref,
      needs      |-> [i \in 1..s.n |-> MergedDeps(s, i, [j \in 1..s.n |-> RawNeeds(s, j)])],
      isNeededBy |-> [i \in 1..s.n |-> MergedDeps(s, i, [j \in 1..s.n |-> RawIsNeededBy(s, j)])],
      manyToManyConnections |-> [i \in 1..s.n |-> MergedConnections(s, i)],
      inputNodesById |-> {i \in 1..s.n : s.parent[i] = 0} ]

NeedsOf(g, i) == {g.needs[i][k].node : k \in DOMAIN g.needs[i]}

RECURSIVE ReachableNeeds(_, _, _)
ReachableNeeds(g, S, k) ==
    IF k = 0 THEN S
    ELSE ReachableNeeds(g, S \cup UNION {NeedsOf(g, j) : j \in S}, k - 1)

\* isCyclic: some node transitively needs itself.
IsCyclic(g) == \E i \in 1..g.n : i \in ReachableNeeds(g, NeedsOf(g, i), g.n)

\* The properties of input object i before the insertion starts.
InputModel(s, i, extra) ==
    LET base == [k \in {uidProp, "name"} |->
                    IF k = uidProp THEN Uid(i) ELSE "n" \o ToString(i)]
        rels == {c \in 1..s.n : s.parent[c] = i}
        withRels == [k \in DOMAIN base \cup {RelProp(c) : c \in rels} |->
                        IF k \in DOMAIN base THEN base[k] ELSE "[object]"]
        withRef == IF s.ref[i] # 0
                   THEN SetProp(withRels, uidRefProp, Uid(s.ref[i]))
                   ELSE withRels
    IN  IF extra[i] \in ExtraValues THEN SetProp(withRef, "extra", extra[i]) ELSE withRef

NoExtra == "<absent>"

\* Extra join-table properties are carried by the reference objects nested
\* under a many-to-many relation; elsewhere the insertion never reads them.
ExtraFns(s) ==
    Product(s.n, [i \in 1..s.n |->
        {NoExtra} \cup (IF s.ref[i] # 0 /\ s.kind[i] = "ManyToMany"
                        THEN ExtraValues ELSE {})])

Shapes ==
    UNION { UNION { UNION { UNION {
        { [n |-> n, parent |-> p, kind |-> k, table |-> t, ref |-> r] :
            r \in RefFns(n, p, t) } :
        t \in TableFns(n) } :
        k \in KindFns(n, p) } :
        p \in ParentFns(n) } :
        n \in 1..MaxNodes }

\* The inputs a GraphInserter can be constructed with: DependencyGraph.build
\* refuses a graph with cyclic needs.
Inputs ==
    {in \in UNION {{[shape |-> s, extra |-> e] : e \in ExtraFns(s)} : s \in Shapes} :
        ~IsCyclic(DependencyGraph(in.shape))}

\* No call of transaction() or of an id getter has been made.
NotCalled == [called |-> FALSE]

\* No join builder has been used: the column info cache is empty.
NoEagerQuery ==
    /\ query = [n |-> 0]
    /\ builder = [encIdx |-> 0]
    /\ statement = [selects |-> <<>>, joins |-> <<>>, error |-> <<>>]
    /\ phase = "idle"
    /\ dbRows = <<>>
    /\ tree = <<>>
    /\ copy = [cloned |-> FALSE]

JoinBuilderIdle ==
    /\ columnInfo = [t \in Tables |-> [state |-> "none"]]
    /\ requests = <<>>
    /\ fetches = <<>>
    /\ NoEagerQuery

OutsideInserterIdle ==
    /\ transactionCall = NotCalled
    /\ getterCall = NotCalled
    /\ JoinBuilderIdle

\* constructor: the fields of a GraphInserter built for an input
GraphInserter(in) ==
    [graph  |-> DependencyGraph(in.shape),
     models |-> SelectSeq(Ids(in.shape.n), LAMBDA i : in.shape.parent[i] = 0),
     model  |-> [i \in 1..in.shape.n |-> InputModel(in.shape, i, in.extra)],
     handled |-> [i \in 1..in.shape.n |-> in.shape.ref[i] # 0],
     numHandledNeeds |-> [i \in 1..in.shape.n |-> 0]]

Init ==
    \E in \in Inputs : \E new \in {GraphInserter(in)} :
        /\ graph = new.graph
        /\ models = new.models
        /\ model = new.model
        /\ handled = new.handled
        /\ numHandledNeeds = new.numHandledNeeds
        /\ done = FALSE
        /\ pc = "running"
        /\ calls = <<>>
        /\ events = <<>>
        /\ nextId = [t \in Tables |-> 1]
        /\ result = <<>>
        /\ OutsideInserterIdle

(***************************************************************************)
(* Collaborators of the inserter                                           *)
(***************************************************************************)
\* graph.nodesById: the node whose object was given the synthetic uid.
nodesById(g, uid) == CHOOSE i \in 1..g.n : Uid(i) = uid

\* relation.joinTable of the many-to-many relation between two entity types
JoinTable(ownerTable, relatedTable) == "J_" \o ownerTable \o "_" \o relatedTable

\* relation.createJoinModels: the owner's and the related object's key values
createJoinModel(owner, related) ==
    (IF Has(owner, idProp) THEN <<[k |-> "ownerId", v |-> owner[idProp]]>> ELSE <<>>)
    \o (IF Has(related, idProp) THEN <<[k |-> "relatedId", v |-> related[idProp]]>> ELSE <<>>)

\* Dependency.resolve: write the inserted object's identifier into the
\* foreign-key property of the dependent object.
resolve(m, dep, inserted) ==
    IF Has(inserted, idProp)
    THEN [m EXCEPT ![dep.node] = SetProp(m[dep.node], dep.prop, inserted[idProp])]
    ELSE m

(***************************************************************************)
(* Model.$propKey and the lodash helpers used on join rows                 *)
(***************************************************************************)
RowKeys(row) == [i \in 1..Len(row) |-> row[i].k]

\* this[prop] converted to a string: a missing property reads as undefined
RowValue(row, prop) ==
    IF \E i \in 1..Len(row) : row[i].k = prop
    THEN row[CHOOSE i \in 1..Len(row) : row[i].k = prop].v
    ELSE "undefined"

RECURSIVE propKeyLoop(_, _, _)
propKeyLoop(row, props, i) ==
    IF i > Len(props) THEN ""
    ELSE RowValue(row, props[i]) \o (IF i < Len(props) THEN "," ELSE "")
         \o propKeyLoop(row, props, i + 1)

propKey(row, props) ==
    CASE Len(props) = 1 -> RowValue(row, props[1]) \o ""
      [] Len(props) = 2 -> RowValue(row, props[1]) \o "," \o RowValue(row, props[2])
      [] Len(props) = 3 -> RowValue(row, props[1]) \o "," \o RowValue(row, props[2])
                           \o "," \o RowValue(row, props[3])
      [] OTHER -> propKeyLoop(row, props, 1)

(***************************************************************************)
(* GraphInserter                                                           *)
(***************************************************************************)
TableInsertion(tableName, isJoin, ms, isInput) ==
    [tableName |-> tableName, isJoinTableInsertion |-> isJoin,
     models |-> ms, isInputModel |-> isInput]

\* Eligibility that looks at the handled flag only
EligibleUnhandled(g, h, nhn, i) == ~h[i]

\* Eligibility with the comparison off by one
EligibleOffByOne(g, h, nhn, i) == ~h[i] /\ Len(g.needs[i]) <= nhn[i] + 1

\* Eligibility that also waits for the many-to-many related nodes
EligibleAfterConnections(g, h, nhn, i) ==
    /\ ~h[i]
    /\ Len(g.needs[i]) = nhn[i]
    /\ \A k \in DOMAIN g.manyToManyConnections[i] : h[g.manyToManyConnections[i][k].node]

\* _createBatch line 85: node.handled is false and every need is handled
Eligible(g, h, nhn, i) == ~h[i] /\ Len(g.needs[i]) = nhn[i]

\* A batch of every unhandled node, whatever it needs
createBatchOfUnhandled(g, h, nhn) ==
    LET nodes  == SelectSeq(Ids(g.n), LAMBDA i : ~h[i])
        tables == Uniq([k \in 1..Len(nodes) |-> g.tableName[nodes[k]]])
    IN  [t \in 1..Len(tables) |->
            LET ms == SelectSeq(nodes, LAMBDA i : g.tableName[i] = tables[t])
            IN  TableInsertion(tables[t], FALSE, ms,
                               [k \in 1..Len(ms) |-> ms[k] \in g.inputNodesById])]

\* _createBatch: the eligible nodes grouped by table; models holds the
\* addresses of the nodes' objects.
createBatch(g, h, nhn) ==
    LET nodes  == SelectSeq(Ids(g.n), LAMBDA i : Eligible(g, h, nhn, i))
        tables == Uniq([k \in 1..Len(nodes) |-> g.tableName[nodes[k]]])
    IN  [t \in 1..Len(tables) |->
            LET ms == SelectSeq(nodes, LAMBDA i : g.tableName[i] = tables[t])
            IN  TableInsertion(tables[t], FALSE, ms,
                               [k \in 1..Len(ms) |-> ms[k] \in g.inputNodesById])]

\* The nodes _markBatchHandled finds through the uid of each batch object.
BatchNodes(g, m, batch) ==
    {nodesById(g, m[a][uidProp]) :
        a \in UNION {Range(batch[t].models) : t \in 1..Len(batch)}}

\* Marking that leaves the handled flags as they are
markBatchHandledFlagsUnchanged(g, m, h, batch) == h

markBatchHandledFlags(g, m, h, batch) ==
    [i \in 1..g.n |-> h[i] \/ i \in BatchNodes(g, m, batch)]

\* Marking that forgets to count the handled needs of the dependents
markBatchHandledCountsUnchanged(g, m, nhn, batch) == nhn

markBatchHandledCounts(g, m, nhn, batch) ==
    [j \in 1..g.n |->
        nhn[j] + Cardinality({ e \in BatchNodes(g, m, batch) \X (1..g.n) :
                                 /\ e[2] \in DOMAIN g.isNeededBy[e[1]]
                                 /\ g.isNeededBy[e[1]][e[2]].node = j })]

\* The join row of one many-to-many connection of node n.
JoinRow(g, m, n, conn) ==
    createJoinModel(m[n], m[conn.node])
    \o (IF conn.refNode # 0 /\ Has(m[conn.refNode], "extra")
        THEN <<[k |-> "extra", v |-> m[conn.refNode]["extra"]]>>
        ELSE <<>>)

\* All join rows with their join tables, in node order then connection order.
JoinRows(g, m) ==
    Concat([n \in 1..g.n |->
        [c \in 1..Len(g.manyToManyConnections[n]) |->
            [tableName |-> JoinTable(g.tableName[n],
                                     g.tableName[g.manyToManyConnections[n][c].node]),
             row |-> JoinRow(g, m, n, g.manyToManyConnections[n][c])]]])

\* Remove duplicates: rows of one join table that agree on the string made
\* of the values of every key found in any row of that table.
removeDuplicates(rows) ==
    LET keys == Uniq(Concat([i \in 1..Len(rows) |-> RowKeys(rows[i])]))
    IN  uniqBy(rows, [i \in 1..Len(rows) |-> propKey(rows[i], keys)])

\* A join-row batch whose isInputModel list is not rebuilt after the
\* duplicates were removed
createManyToManyRelationJoinRowBatchStaleFlags(g, m) ==
    LET all    == JoinRows(g, m)
        tables == Uniq([i \in 1..Len(all) |-> all[i].tableName])
    IN  [t \in 1..Len(tables) |->
            LET sel  == SelectSeq(all, LAMBDA e : e.tableName = tables[t])
                rows == removeDuplicates([i \in 1..Len(sel) |-> sel[i].row])
            IN  TableInsertion(tables[t], TRUE, rows,
                               [i \in 1..Len(sel) |-> FALSE])]

createManyToManyRelationJoinRowBatch(g, m) ==
    LET all    == JoinRows(g, m)
        tables == Uniq([i \in 1..Len(all) |-> all[i].tableName])
    IN  [t \in 1..Len(tables) |->
            LET sel  == SelectSeq(all, LAMBDA e : e.tableName = tables[t])
                rows == removeDuplicates([i \in 1..Len(sel) |-> sel[i].row])
            IN  TableInsertion(tables[t], TRUE, rows,
                               [i \in 1..Len(rows) |-> FALSE])]

\* _omitUids: the uids of the objects, which lose their uid property.
omitUidsIds(m, tableInsertion) ==
    [k \in 1..Len(tableInsertion.models) |-> m[tableInsertion.models[k]][uidProp]]

\* The objects with their uid properties left in place
omitUidsNone(m, batch) == m

omitUids(m, batch) ==
    [i \in DOMAIN m |->
        IF \E t \in 1..Len(batch) :
               ~batch[t].isJoinTableInsertion /\ i \in Range(batch[t].models)
        THEN omitArray(m[i], {uidProp})
        ELSE m[i]]

RECURSIVE resolveAll(_, _, _, _)
resolveAll(m, deps, inserted, d) ==
    IF d > Len(deps) THEN m
    ELSE resolveAll(resolve(m, deps[d], inserted), deps, inserted, d + 1)

\* No dependency is resolved after an insert
resolveDepsForInsertionNone(g, m, call, k) == m

RECURSIVE resolveDepsForInsertion(_, _, _, _)
\* _resolveDepsForInsertion, from the k-th object of the call on
resolveDepsForInsertion(g, m, call, k) ==
    IF k > Len(call.nodes) THEN m
    ELSE LET node == nodesById(g, call.uids[k])
         IN  resolveDepsForInsertion(
                 g, resolveAll(m, g.isNeededBy[node], m[call.nodes[k]], 1), call, k + 1)

\* Finalization that strips the synthetic properties without copying
finalizeWithoutCopy(g, m, n) ==
    [i \in DOMAIN m |->
        IF Has(m[i], uidRefProp) THEN omitArray(m[i], {uidProp, uidRefProp}) ELSE m[i]]

RECURSIVE finalize(_, _, _)
\* _finalize, from node n on
finalize(g, m, n) ==
    IF n > g.n THEN m
    ELSE IF Has(m[n], uidRefProp)
         THEN LET actual == m[nodesById(g, m[n][uidRefProp])]
                  copied == [k \in DOMAIN m[n] \cup (DOMAIN actual \ Relations) |->
                                IF k \in DOMAIN actual \ Relations
                                THEN actual[k] ELSE m[n][k]]
              IN  finalize(g, [m EXCEPT ![n] = omitArray(copied, {uidProp, uidRefProp})],
                           n + 1)
         ELSE finalize(g, m, n + 1)

\* Continuing as soon as one insert of the batch has resolved
BatchAnyResolved(cs) == cs = <<>> \/ \E c \in 1..Len(cs) : cs[c].status = "resolved"

\* Promise.all of the batch has resolved: no insert is pending or rejected.
BatchResolved(cs) == \A c \in 1..Len(cs) : cs[c].status = "resolved"

BatchesSelected == Cardinality({e \in DOMAIN events : events[e].type = "batch"})

Event(type, call) == [type |-> type, call |-> call]

\* The invocations of the insert callback for a batch, in Object.keys order.
Invocations(m, batch, no) ==
    [t \in 1..Len(batch) |->
        [batch  |-> no,
         tableName |-> batch[t].tableName,
         isJoinTableInsertion |-> batch[t].isJoinTableInsertion,
         nodes  |-> IF batch[t].isJoinTableInsertion THEN <<>> ELSE batch[t].models,
         models |-> IF batch[t].isJoinTableInsertion THEN batch[t].models
                    ELSE [k \in 1..Len(batch[t].models) |->
                             omitUids(m, batch)[batch[t].models[k]]],
         isInputModel |-> batch[t].isInputModel,
         uids   |-> IF batch[t].isJoinTableInsertion THEN <<>>
                    ELSE omitUidsIds(m, batch[t]),
         status |-> "pending"]]

\* A _nextBatch that does not remember that the scan found nothing
nextBatchNeverDone(g, m, h, nhn, d) ==
    LET batch == createBatch(g, h, nhn)
    IN  IF batch = <<>>
        THEN [null |-> FALSE,
              batch |-> createManyToManyRelationJoinRowBatch(g, m),
              done |-> d, handled |-> h, numHandledNeeds |-> nhn]
        ELSE [null |-> FALSE, batch |-> batch, done |-> d,
              handled |-> markBatchHandledFlags(g, m, h, batch),
              numHandledNeeds |-> markBatchHandledCounts(g, m, nhn, batch)]

\* _nextBatch: null once done; the join-row batch when no node is eligible;
\* otherwise the batch of eligible nodes, which are marked handled.
nextBatch(g, m, h, nhn, d) ==
    IF d
    THEN [null |-> TRUE, batch |-> <<>>, done |-> d, handled |-> h,
          numHandledNeeds |-> nhn]
    ELSE LET batch == createBatch(g, h, nhn)
         IN  IF batch = <<>>
             THEN [null |-> FALSE,
                   batch |-> createManyToManyRelationJoinRowBatch(g, m),
                   done |-> TRUE, handled |-> h, numHandledNeeds |-> nhn]
             ELSE [null |-> FALSE, batch |-> batch, done |-> d,
                   handled |-> markBatchHandledFlags(g, m, h, batch),
                   numHandledNeeds |-> markBatchHandledCounts(g, m, nhn, batch)]

\* _executeNextBatch: the fields and the history after one run that got
\* `next` from _nextBatch as batch number `no`.  Without a batch the graph is
\* finalized and execute resolves with the input models;
\* otherwise the uids are omitted and the insert callback is invoked once
\* per table of the batch.
executeNextBatch(next, no) ==
        IF next.null
        THEN [done |-> next.done, handled |-> next.handled,
              numHandledNeeds |-> next.numHandledNeeds,
              model |-> finalize(graph, model, 1),
              result |-> models,
              pc |-> "resolved",
              calls |-> calls,
              events |-> Append(events, Event("finalize", 0))]
        ELSE [done |-> next.done, handled |-> next.handled,
              numHandledNeeds |-> next.numHandledNeeds,
              model |-> omitUids(model, next.batch),
              result |-> result,
              pc |-> pc,
              calls |-> calls \o Invocations(model, next.batch, no),
              events |-> events \o <<Event("batch", no)>>
                         \o [t \in 1..Len(next.batch) |-> Event("invoke", Len(calls) + t)]]

\* _executeNextBatch runs when execute is called and again each time every
\* insert of the previous batch has resolved.
ExecuteNextBatch ==
    /\ pc = "running"
    /\ BatchResolved(calls)
    /\ \E next \in {nextBatch(graph, model, handled, numHandledNeeds, done)} :
       \E after \in {executeNextBatch(next, BatchesSelected + 1)} :
           /\ done' = after.done
           /\ handled' = after.handled
           /\ numHandledNeeds' = after.numHandledNeeds
           /\ model' = after.model
           /\ result' = after.result
           /\ pc' = after.pc
           /\ calls' = after.calls
           /\ events' = after.events
    /\ UNCHANGED <<graph, models, nextId>>
    /\ UNCHANGED outsideInserter

\* The store generates the identifiers of the inserted rows, in input order.
Inserted(m, call, first) ==
    [i \in DOMAIN m |->
        IF \E k \in 1..Len(call.nodes) : call.nodes[k] = i
        THEN SetProp(m[i], idProp,
                     ToString(first - 1 + CHOOSE k \in 1..Len(call.nodes) : call.nodes[k] = i))
        ELSE m[i]]

\* The objects after insert c completed: the store has set the identifiers
\* and, for an entity insertion, the dependencies have been resolved.
inserterThen(c) ==
    IF calls[c].isJoinTableInsertion
    THEN model
    ELSE resolveDepsForInsertion(
             graph, Inserted(model, calls[c], nextId[calls[c].tableName]), calls[c], 1)

\* The promise of one insert callback invocation resolves and its `then`
\* callback runs.
InserterResolve(c) ==
    /\ calls[c].status = "pending"
    /\ calls' = [calls EXCEPT ![c].status = "resolved"]
    /\ events' = Append(events, Event("resolve", c))
    /\ \E after \in {inserterThen(c)} : model' = after
    /\ nextId' = IF calls[c].isJoinTableInsertion THEN nextId
                 ELSE [nextId EXCEPT ![calls[c].tableName] = @ + Len(calls[c].nodes)]
    /\ UNCHANGED <<graph, models, handled, numHandledNeeds, done, pc, result>>
    /\ UNCHANGED outsideInserter

\* A rejection that is swallowed
RejectedSwallowed(state) == state

\* The state of execute's promise after an insert promise rejected.
Rejected(state) == IF state = "running" THEN "rejected" ELSE state

\* The promise of one insert callback invocation rejects.
InserterReject(c) ==
    /\ calls[c].status = "pending"
    /\ calls' = [calls EXCEPT ![c].status = "rejected"]
    /\ events' = Append(events, Event("reject", c))
    /\ pc' = Rejected(pc)
    /\ UNCHANGED <<graph, models, model, handled, numHandledNeeds, done, nextId, result>>
    /\ UNCHANGED outsideInserter

Next ==
    \/ ExecuteNextBatch
    \/ \E c \in 1..Len(calls) : InserterResolve(c)
    \/ \E c \in 1..Len(calls) : InserterReject(c)

Spec == Init /\ [][Next]_vars

\* An insert callback that always resolves.  The specification starts before
\* the inserter is constructed, so that it has a single initial state; its
\* fairness is the event loop running every scheduled continuation and the
\* store answering every insert.
EmptyInput ==
    [shape |-> [n |-> 0, parent |-> <<>>, kind |-> <<>>, table |-> <<>>, ref |-> <<>>],
     extra |-> <<>>]

InserterNew ==
    /\ graph = GraphInserter(EmptyInput).graph
    /\ models = <<>>
    /\ model = <<>>
    /\ handled = <<>>
    /\ numHandledNeeds = <<>>
    /\ done = FALSE
    /\ pc = "new"
    /\ calls = <<>>
    /\ events = <<>>
    /\ nextId = [t \in Tables |-> 1]
    /\ result = <<>>

InitNew == InserterNew /\ OutsideInserterIdle

\* new GraphInserter(args) followed by execute(inserter)
Construct ==
    /\ pc = "new"
    /\ \E in \in Inputs : \E new \in {GraphInserter(in)} :
        /\ graph' = new.graph
        /\ models' = new.models
        /\ model' = new.model
        /\ handled' = new.handled
        /\ numHandledNeeds' = new.numHandledNeeds
    /\ pc' = "running"
    /\ UNCHANGED <<done, calls, events, nextId, result>>
    /\ UNCHANGED outsideInserter

NextResolving ==
    \/ Construct
    \/ ExecuteNextBatch
    \/ \E c \in 1..Len(calls) : InserterResolve(c)

SpecResolving ==
    /\ InitNew
    /\ [][NextResolving]_vars
    /\ WF_vars(ExecuteNextBatch \/ \E c \in 1..Len(calls) : InserterResolve(c))

(***************************************************************************)
(* History helpers                                                         *)
(***************************************************************************)
EntityCalls == {c \in 1..Len(calls) : ~calls[c].isJoinTableInsertion}

JoinCalls == {c \in 1..Len(calls) : calls[c].isJoinTableInsertion}

\* The entity invocations whose TableInsertion contains the object of node n
CallsOf(n) == {c \in EntityCalls : n \in Range(calls[c].nodes)}

\* The places (invocation, position) at which the object of node n was passed
Passes(n) ==
    {e \in EntityCalls \X (1..graph.n) :
        e[2] \in DOMAIN calls[e[1]].nodes /\ calls[e[1]].nodes[e[2]] = n}

Happened(type, c) == \E e \in DOMAIN events : events[e] = Event(type, c)

At(type, c) == CHOOSE e \in DOMAIN events : events[e] = Event(type, c)

ResolvedBefore(c, type, x) ==
    /\ Happened("resolve", c)
    /\ Happened(type, x)
    /\ At("resolve", c) < At(type, x)

NonRefNodes == {n \in 1..graph.n : graph.ref[n] = 0}

RefNodes == {n \in 1..graph.n : graph.ref[n] # 0}

\* The edges (needed node j, position d) of isNeededBy that target node n.  A
\* reference node's list holds the very edges that were merged into the node
\* it refers to, so the edges are those of the non-reference nodes.
EdgesTo(n) ==
    {e \in NonRefNodes \X (1..graph.n) :
        e[2] \in DOMAIN graph.isNeededBy[e[1]] /\ graph.isNeededBy[e[1]][e[2]].node = n}

(***************************************************************************)
(* Claims                                                                  *)
(***************************************************************************)

\* C1: for every node n and every node m in n.needs, the insert callback
\* invocation that contains n's object is started only after the promise of
\* the invocation that contained m's object has resolved.
C1_NeedsResolvedBeforeInvoke ==
    \A n \in 1..graph.n : \A c \in CallsOf(n) : \A m \in NeedsOf(graph, n) :
        \E c2 \in CallsOf(m) : ResolvedBefore(c2, "invoke", c)

C1_Witness ==
    \E n \in 1..graph.n : NeedsOf(graph, n) # {} /\ CallsOf(n) # {}

\* C2: with an insert callback that always resolves, execute eventually
\* resolves, and by then the object of every non-reference node has been
\* passed to the insert callback in exactly one entity TableInsertion; at no
\* time has an object been passed twice.
C2_ResolvesWithEveryNodeInsertedOnce ==
    /\ (pc = "running") ~> (pc = "resolved")
    /\ [](pc = "resolved" => \A n \in NonRefNodes : Cardinality(Passes(n)) = 1)
    /\ [](\A n \in 1..graph.n : Cardinality(Passes(n)) <= 1)

C2_Witness ==
    /\ pc = "resolved"
    /\ RefNodes # {}
    /\ \E n \in NonRefNodes : NeedsOf(graph, n) # {} /\ Cardinality(Passes(n)) = 1

\* C3: when the insert callback is invoked with the object of node n, every
\* isNeededBy edge that targets n has been resolved: the foreign-key property
\* of the edge already holds the identifier of the needed node.
C3_ForeignKeysSetAtInvoke ==
    \A c \in EntityCalls : \A k \in DOMAIN calls[c].nodes :
        \A e \in EdgesTo(calls[c].nodes[k]) :
            LET prop == graph.isNeededBy[e[1]][e[2]].prop
            IN  /\ Has(model[e[1]], idProp)
                /\ Has(calls[c].models[k], prop)
                /\ calls[c].models[k][prop] = model[e[1]][idProp]

C3_Witness ==
    \E c \in EntityCalls : \E k \in DOMAIN calls[c].nodes :
        EdgesTo(calls[c].nodes[k]) # {}

\* C4: batches execute strictly sequentially: a batch is selected, and its
\* insert callbacks invoked, only after every insert promise of the earlier
\* batches has resolved, and all insert callbacks of one batch are invoked
\* before any of them has completed.
C4_BatchesSequential ==
    /\ \A c \in 1..Len(calls) : \A b \in 1..BatchesSelected :
           calls[c].batch < b => ResolvedBefore(c, "batch", b)
    /\ \A c \in 1..Len(calls) : \A c2 \in 1..Len(calls) :
           /\ calls[c].batch < calls[c2].batch => ResolvedBefore(c, "invoke", c2)
           /\ calls[c].batch = calls[c2].batch =>
                  \A type \in {"resolve", "reject"} :
                      Happened(type, c) => At("invoke", c2) < At(type, c)

C4_Witness ==
    \E c \in 1..Len(calls) : \E c2 \in 1..Len(calls) : \E c3 \in 1..Len(calls) :
        /\ c # c2
        /\ calls[c].batch = calls[c2].batch
        /\ calls[c3].batch = calls[c].batch + 1
        /\ Happened("resolve", c3)

\* The connections recorded for a join table: owner n and position k of
\* n.manyToManyConnections.
Connections ==
    {e \in (1..graph.n) \X (1..graph.n) : e[2] \in DOMAIN graph.manyToManyConnections[e[1]]}

Related(e) == graph.manyToManyConnections[e[1]][e[2]].node

JoinTableOf(e) == JoinTable(graph.tableName[e[1]], graph.tableName[Related(e)])

\* The rows of join invocation c that relate owner identifier o to related
\* identifier r.
RowsFor(c, o, r) ==
    {i \in DOMAIN calls[c].models :
        /\ RowValue(calls[c].models[i], "ownerId") = o
        /\ RowValue(calls[c].models[i], "relatedId") = r}

\* The owner/related pair of connection e is recorded by another connection
\* as well.
RecordedTwice(e) ==
    \E e2 \in Connections : e2 # e /\ e2[1] = e[1] /\ Related(e2) = Related(e)

\* C5: when the same owner/related pair of a many-to-many relation is
\* recorded twice in one graph, also through a reference node, the join-table
\* TableInsertion passed to the insert callback contains exactly one join row
\* for that pair.
C5_OneJoinRowPerPair ==
    \A c \in JoinCalls : \A e \in Connections :
        (JoinTableOf(e) = calls[c].tableName /\ RecordedTwice(e)) =>
            Cardinality(RowsFor(c, model[e[1]][idProp], model[Related(e)][idProp])) = 1

\* The number of nodes n transitively needs on its longest chain, plus one:
\* the batch an entity node belongs to when only its needs order it.
RECURSIVE Level(_, _)
Level(n, fuel) ==
    IF fuel = 0 \/ NeedsOf(graph, n) = {} THEN 1
    ELSE 1 + CHOOSE l \in 1..graph.n :
                 /\ \E m \in NeedsOf(graph, n) : Level(m, fuel - 1) = l
                 /\ \A m \in NeedsOf(graph, n) : Level(m, fuel - 1) <= l

EntityBatches == {calls[c].batch : c \in EntityCalls}

\* C6: whenever the insert callback is invoked with an entity TableInsertion,
\* no object of it carries the synthetic uid property, while the uids removed
\* are kept in the order of the objects and map each inserted object back to
\* its graph node: once the insert has resolved, every dependent of that node
\* holds the identifier of the inserted object.
C6_UidsOmittedAndKeptForMapping ==
    \A c \in EntityCalls : \A k \in DOMAIN calls[c].nodes :
        /\ ~Has(calls[c].models[k], uidProp)
        /\ Len(calls[c].uids) = Len(calls[c].models)
        /\ nodesById(graph, calls[c].uids[k]) = calls[c].nodes[k]
        /\ calls[c].status = "resolved" =>
               \A d \in DOMAIN graph.isNeededBy[calls[c].nodes[k]] :
                   LET dep == graph.isNeededBy[calls[c].nodes[k]][d]
                   IN  /\ Has(model[dep.node], dep.prop)
                       /\ model[dep.node][dep.prop] = model[calls[c].nodes[k]][idProp]

C6_Witness ==
    \E c \in EntityCalls :
        /\ calls[c].status = "resolved"
        /\ Len(calls[c].nodes) >= 2
        /\ \E k \in DOMAIN calls[c].nodes : graph.isNeededBy[calls[c].nodes[k]] # <<>>

FirstReject ==
    CHOOSE e \in DOMAIN events :
        /\ events[e].type = "reject"
        /\ \A e2 \in 1..(e - 1) : events[e2].type # "reject"

\* C7: if the promise of any insert callback invocation rejects, the promise
\* returned by execute rejects, no batch is selected and no insert callback
\* is invoked afterwards, finalization is not run, and the input graph is not
\* returned as a result.
C7_RejectAbortsOperation ==
    (\E c \in 1..Len(calls) : calls[c].status = "rejected") =>
        /\ pc = "rejected"
        /\ result = <<>>
        /\ \A e \in DOMAIN events :
               /\ events[e].type # "finalize"
               /\ events[e].type \in {"batch", "invoke"} => e < FirstReject

C7_Witness ==
    /\ \E c \in 1..Len(calls) : calls[c].status = "rejected"
    /\ \E c \in 1..Len(calls) : calls[c].status = "resolved" /\ calls[c].batch = 1
    /\ \A c \in 1..Len(calls) : calls[c].status # "pending"
    /\ \E n \in NonRefNodes : CallsOf(n) = {}

\* C8: join-table TableInsertions are passed to the insert callback only in
\* one final batch, created exactly once, after a scan found no eligible
\* entity node and after every entity insert has resolved; no entity
\* TableInsertion is issued after it, and many-to-many connections never
\* delay or order entity inserts: a node's batch is decided by its needs.
C8_JoinRowsInOneFinalBatch ==
    /\ \A j \in JoinCalls : \A c \in EntityCalls :
           calls[c].batch < calls[j].batch /\ ResolvedBefore(c, "invoke", j)
    /\ \A j \in JoinCalls : \A j2 \in JoinCalls : calls[j].batch = calls[j2].batch
    /\ JoinCalls # {} => done
    /\ done =>
           /\ createBatch(graph, handled, numHandledNeeds) = <<>>
           /\ \A c \in EntityCalls : calls[c].status = "resolved"
           /\ BatchesSelected = Cardinality(EntityBatches) + 1
           /\ \A j \in JoinCalls : calls[j].batch = BatchesSelected
    /\ \A c \in EntityCalls : \A k \in DOMAIN calls[c].nodes :
           calls[c].batch = Level(calls[c].nodes[k], graph.n)

C8_Witness ==
    /\ \E j \in JoinCalls : calls[j].status = "resolved" /\ calls[j].batch = 3
    /\ \E e \in Connections : NeedsOf(graph, Related(e)) # {}

\* C9: when execute resolves, its value is the input object(s) given to the
\* GraphInserter, and every object that was a bare reference holds every
\* non-relation property of the final object of the node it refers to, its
\* generated identifier included, and carries neither the synthetic uid
\* property nor the synthetic ref property.
C9_ResolvesWithPopulatedInput ==
    pc = "resolved" =>
        /\ result = models
        /\ \A r \in RefNodes :
               /\ Has(model[graph.ref[r]], idProp)
               /\ \A key \in DOMAIN model[graph.ref[r]] \ Relations :
                      Has(model[r], key) /\ model[r][key] = model[graph.ref[r]][key]
               /\ ~Has(model[r], uidProp)
               /\ ~Has(model[r], uidRefProp)

C9_Witness ==
    /\ pc = "resolved"
    /\ \E r \in RefNodes :
           /\ NeedsOf(graph, graph.ref[r]) # {}
           /\ DOMAIN model[graph.ref[r]] \cap Relations # {}

\* The scenario of C10: one top-level parent object with one child nested
\* under a has-many relation.
ParentWithOneChild ==
    /\ graph.n = 2
    /\ graph.parent = <<0, 1>>
    /\ graph.kind[2] = "HasMany"
    /\ graph.ref[2] = 0

\* C10: inserting a parent with one child under a has-many relation produces
\* exactly two insert callback invocations in two successive batches, the
\* parent's table first and the child's table second, and the child's
\* foreign-key property equals the parent's generated identifier when the
\* child's insert callback is invoked.
C10_ParentThenChild ==
    ParentWithOneChild =>
        /\ Len(calls) <= 2
        /\ pc = "resolved" => Len(calls) = 2
        /\ Len(calls) >= 1 =>
               /\ calls[1].batch = 1
               /\ ~calls[1].isJoinTableInsertion
               /\ calls[1].tableName = graph.tableName[1]
               /\ calls[1].nodes = <<1>>
        /\ Len(calls) = 2 =>
               /\ calls[2].batch = 2
               /\ ~calls[2].isJoinTableInsertion
               /\ calls[2].tableName = graph.tableName[2]
               /\ calls[2].nodes = <<2>>
               /\ ResolvedBefore(1, "invoke", 2)
               /\ Has(calls[2].models[1], FkProp(2))
               /\ calls[2].models[1][FkProp(2)] = model[1][idProp]

C10_Witness ==
    /\ ParentWithOneChild
    /\ pc = "resolved"
    /\ graph.tableName[2] # graph.tableName[1]
    /\ Len(calls) = 2

\* C20: a node's handled flag is set, and numHandledNeeds of the nodes that
\* depend on it is incremented, only once the insert callback invocation whose
\* TableInsertion contained the node has resolved, never before.
C20_HandledOnlyAfterResolve ==
    /\ \A n \in NonRefNodes :
           handled[n] => \E c \in CallsOf(n) : Happened("resolve", c)
    /\ \A j \in 1..graph.n :
           numHandledNeeds[j] <=
               Cardinality({e \in EdgesTo(j) :
                               \E c \in CallsOf(e[1]) : Happened("resolve", c)})

(***************************************************************************)
(* transaction (lib/transaction.js)                                        *)
(*                                                                         *)
(* An argument is a JavaScript value of one of five sorts: undefined, a    *)
(* knex instance (an object with a transaction function), a Model subclass *)
(* with the knex it is bound to ("undefined" when unbound), a plain        *)
(* function and a plain object.                                            *)
(***************************************************************************)
MaxArgs == 3

Knexes == {"knex1", "knex2"}

Undefined == [type |-> "undefined", knex |-> "undefined"]

KnexInstance(k) == [type |-> "knex", knex |-> k]

ModelClass(k) == [type |-> "Model", knex |-> k]

PlainFunction == [type |-> "function", knex |-> "undefined"]

PlainObject == [type |-> "object", knex |-> "undefined"]

ArgumentValues ==
    {Undefined, PlainFunction, PlainObject}
    \cup {KnexInstance(k) : k \in Knexes}
    \cup {ModelClass(k) : k \in Knexes \cup {"undefined"}}

ArgumentLists == UNION {[1..n -> ArgumentValues] : n \in 0..MaxArgs}

isSubclassOf(value, Super) == value.type = Super

\* ModelClass.knex(): the knex the class is bound to
knexOf(modelClass) == modelClass.knex

\* Reading a property of undefined throws a TypeError.
Throws(error) == [outcome |-> "throws", error |-> error, knexTransaction |-> <<>>]

PromiseReject(error) ==
    [outcome |-> "rejected", error |-> error, knexTransaction |-> <<>>]

\* knex.transaction(...) was called on knex k and its promise is returned.
KnexTransaction(k) ==
    [outcome |-> "returned", error |-> "", knexTransaction |-> <<k>>]

\* transaction(...args): what the call returns or throws, and the calls of
\* knex.transaction it made.
transaction(args) ==
    IF Len(args) < 2
    THEN PromiseReject("provide at least one Model class to bind to the transaction or a knex instance")
    ELSE IF ~isSubclassOf(args[1], "Model") /\ args[1] = Undefined
    THEN Throws("TypeError")
    ELSE IF ~isSubclassOf(args[1], "Model") /\ args[1].type = "knex"
    THEN KnexTransaction(args[1].knex)
    ELSE LET modelClasses == SubSeq(args, 1, Len(args) - 1)
             knex == knexOf(modelClasses[1])
         IN  IF \E i \in 1..Len(modelClasses) : ~isSubclassOf(modelClasses[i], "Model")
             THEN PromiseReject("all but the last argument should be Model subclasses")
             ELSE IF \E i \in 1..Len(modelClasses) : knexOf(modelClasses[i]) # knex
             THEN PromiseReject("all Model subclasses must be bound to the same database")
             ELSE IF knex = "undefined"
             THEN Throws("TypeError")
             ELSE KnexTransaction(knex)

InitTransaction ==
    /\ InserterNew
    /\ getterCall = NotCalled
    /\ JoinBuilderIdle
    /\ \E args \in ArgumentLists : transactionCall = [called |-> FALSE, args |-> args]

CallTransaction ==
    /\ ~transactionCall.called
    /\ "args" \in DOMAIN transactionCall
    /\ transactionCall' = [called |-> TRUE, args |-> transactionCall.args,
                           returned |-> transaction(transactionCall.args)]
    /\ UNCHANGED <<vars, getterCall, joinVars>>

NextTransaction == CallTransaction

SpecTransaction == InitTransaction /\ [][NextTransaction]_allVars

\* The first argument is a knex instance: not a Model subclass, and it has a
\* transaction function.
KnexLike(value) == value.type = "knex"

\* C17: transaction(...) returns a rejected promise and never calls
\* knex.transaction when fewer than two arguments are given, when the first
\* argument is not knex-like and some argument before the last is not a Model
\* subclass, or when the Model subclasses given are not all bound to the same
\* knex.
C17_InvalidArgumentsRejected ==
    transactionCall.called =>
        LET args == transactionCall.args
            before == 1..(Len(args) - 1)
        IN  (\/ Len(args) < 2
             \/ /\ ~KnexLike(args[1])
                /\ \E i \in before : args[i].type # "Model"
             \/ /\ ~KnexLike(args[1])
                /\ \A i \in before : args[i].type = "Model"
                /\ \E i \in before : \E j \in before : args[i].knex # args[j].knex)
            => /\ transactionCall.returned.outcome = "rejected"
               /\ transactionCall.returned.knexTransaction = <<>>

(***************************************************************************)
(* Id getters of the join builder (createIdGetter, create*IdGetter)        *)
(*                                                                         *)
(* A value read from a database row is a JavaScript value: its type and    *)
(* the text a template literal renders it to.  A row is a function from    *)
(* its keys to values.                                                     *)
(***************************************************************************)
MaxIdCols == 4

JsNull == [type |-> "null", text |-> "null"]

JsNumber(n) == [type |-> "number", text |-> ToString(n)]

JsString(str) == [type |-> "string", text |-> str]

\* !val: null, undefined, 0, NaN, '' and false are falsy
Falsy(val) ==
    \/ val.type \in {"null", "undefined"}
    \/ val.type = "number" /\ val.text \in {"0", "NaN"}
    \/ val.type = "string" /\ val.text = ""
    \/ val.type = "boolean" /\ val.text = "false"

\* row[key]: undefined when the row has no such key
Get(row, key) ==
    IF key \in DOMAIN row THEN row[key] ELSE [type |-> "undefined", text |-> "undefined"]

createSingleIdGetter(idCols, row) ==
    LET val == Get(row, idCols[1])
    IN  IF Falsy(val) THEN JsNull ELSE JsString("id:" \o val.text)

createTwoIdGetter(idCols, row) ==
    LET val1 == Get(row, idCols[1])
        val2 == Get(row, idCols[2])
    IN  IF Falsy(val1) \/ Falsy(val2)
        THEN JsNull
        ELSE JsString("id:" \o val1.text \o "," \o val2.text)

createThreeIdGetter(idCols, row) ==
    LET val1 == Get(row, idCols[1])
        val2 == Get(row, idCols[2])
        val3 == Get(row, idCols[3])
    IN  IF Falsy(val1) \/ Falsy(val2) \/ Falsy(val3)
        THEN JsNull
        ELSE JsString("id:" \o val1.text \o "," \o val2.text \o "," \o val3.text)

\* The loop of createNIdGetter from column i on, with the id built so far
RECURSIVE NIdGetterLoop(_, _, _, _)
NIdGetterLoop(idCols, row, i, id) ==
    IF i > Len(idCols)
    THEN JsString(id)
    ELSE LET val == Get(row, idCols[i])
         IN  IF Falsy(val)
             THEN JsNull
             ELSE NIdGetterLoop(idCols, row, i + 1,
                                id \o (IF i > 1 THEN "," ELSE "") \o val.text)

createNIdGetter(idCols, row) == NIdGetterLoop(idCols, row, 1, "id:")

\* createIdGetter(...)(row) for the aliased id columns idCols
idGetter(idCols, row) ==
    IF Len(idCols) = 1 THEN createSingleIdGetter(idCols, row)
    ELSE IF Len(idCols) = 2 THEN createTwoIdGetter(idCols, row)
    ELSE IF Len(idCols) = 3 THEN createThreeIdGetter(idCols, row)
    ELSE createNIdGetter(idCols, row)

\* The values an identifier column can hold in a row
IdValues == {JsNull, JsNumber(0), JsNumber(1), JsString(""), JsString("a")}

IdColumnNames == <<"id", "id2", "id3", "id4", "id5">>

InitIdGetter ==
    /\ InserterNew
    /\ transactionCall = NotCalled
    /\ JoinBuilderIdle
    /\ \E n \in 1..MaxIdCols :
       \E row \in [{IdColumnNames[i] : i \in 1..n} -> IdValues] :
           getterCall = [called |-> FALSE,
                         idCols |-> SubSeq(IdColumnNames, 1, n),
                         row |-> row]

CallIdGetter ==
    /\ ~getterCall.called
    /\ "row" \in DOMAIN getterCall
    /\ getterCall' = [called |-> TRUE, idCols |-> getterCall.idCols,
                      row |-> getterCall.row,
                      returned |-> idGetter(getterCall.idCols, getterCall.row)]
    /\ UNCHANGED <<vars, transactionCall, joinVars>>

NextIdGetter == CallIdGetter

SpecIdGetter == InitIdGetter /\ [][NextIdGetter]_allVars

\* The values of the id columns joined by commas, from column i on
RECURSIVE JoinedFrom(_, _, _)
JoinedFrom(idCols, row, i) ==
    IF i > Len(idCols) THEN ""
    ELSE (IF i > 1 THEN "," ELSE "") \o row[idCols[i]].text
         \o JoinedFrom(idCols, row, i + 1)

\* C19: an id getter returns absent exactly when at least one of the id
\* columns is null in the row; for every row whose id columns are all non-null,
\* the values 0 and the empty string included, it returns the concatenation of
\* the values.
C19_AbsentExactlyWhenSomeIdNull ==
    getterCall.called =>
        LET idCols == getterCall.idCols
            row == getterCall.row
            someNull == \E i \in 1..Len(idCols) : row[idCols[i]] = JsNull
        IN  /\ (getterCall.returned = JsNull) <=> someNull
            /\ ~someNull =>
                   getterCall.returned = JsString("id:" \o JoinedFrom(idCols, row, 1))

(***************************************************************************)
(* Column metadata cache (RelationJoinBuilder.fetchColumnInfo)             *)
(*                                                                         *)
(* A cache entry is empty, the promise of a request, or the result object  *)
(* a resolved request stored.  A fetchColumnInfo call records, per table   *)
(* of its expression, what it took from the cache; Promise.all settles it  *)
(* later.                                                                  *)
(***************************************************************************)
MaxFetches == 3

\* The column lists a database can report for a table
ColumnLists == {<<"id">>, <<"id", "name">>}

\* findAllModels: the distinct tables of an expression, root first
TableLists ==
    {l \in UNION {[1..n -> Tables] : n \in 1..Cardinality(Tables)} :
        \A i \in DOMAIN l : \A j \in DOMAIN l : i # j => l[i] # l[j]}

\* A cache that treats the promise of a pending request as a miss
cachedOnceResolved(ci, table) == ci[table].state = "result"

\* if (columnInfo[table]): a promise and a result object are both truthy
cached(ci, table) == ci[table].state # "none"

\* The map callback of fetchColumnInfo for the tables from position i on
RECURSIVE fetchColumnInfoFrom(_, _, _, _, _)
fetchColumnInfoFrom(ci, reqs, tables, i, got) ==
    IF i > Len(tables)
    THEN [columnInfo |-> ci, requests |-> reqs, got |-> got]
    ELSE LET table == tables[i]
         IN  IF cached(ci, table)
             THEN fetchColumnInfoFrom(ci, reqs, tables, i + 1, Append(got, ci[table]))
             ELSE LET promise == [state |-> "promise", request |-> Len(reqs) + 1]
                  IN  fetchColumnInfoFrom(
                          [ci EXCEPT ![table] = promise],
                          Append(reqs, [table |-> table, status |-> "pending"]),
                          tables, i + 1, Append(got, promise))

fetchColumnInfo(ci, reqs, tables) == fetchColumnInfoFrom(ci, reqs, tables, 1, <<>>)

\* A builder calls fetchColumnInfo for the tables of its expression.
FetchColumnInfo ==
    /\ Len(fetches) < MaxFetches
    /\ \E tables \in TableLists :
       \E after \in {fetchColumnInfo(columnInfo, requests, tables)} :
           /\ columnInfo' = after.columnInfo
           /\ requests' = after.requests
           /\ fetches' = Append(fetches, [tables |-> tables, got |-> after.got,
                                          status |-> "pending"])
    /\ UNCHANGED <<vars, transactionCall, getterCall>>
    /\ UNCHANGED <<query, builder, statement, phase, dbRows, tree, copy>>

\* The database answers a request: the then-callback stores the result object.
ColumnInfoResolve(r) ==
    /\ requests[r].status = "pending"
    /\ \E columns \in ColumnLists :
       LET stored == [state |-> "result", columns |-> columns, request |-> r]
       IN  /\ requests' = [requests EXCEPT ![r] =
                              [table |-> requests[r].table, status |-> "resolved",
                               result |-> stored]]
           /\ columnInfo' = [columnInfo EXCEPT ![requests[r].table] = stored]
    /\ UNCHANGED <<vars, transactionCall, getterCall, fetches>>
    /\ UNCHANGED <<query, builder, statement, phase, dbRows, tree, copy>>

\* The request fails: the rejected promise stays in the cache.
ColumnInfoReject(r) ==
    /\ requests[r].status = "pending"
    /\ requests' = [requests EXCEPT ![r] =
                       [table |-> requests[r].table, status |-> "rejected"]]
    /\ UNCHANGED <<vars, transactionCall, getterCall, columnInfo, fetches>>
    /\ UNCHANGED <<query, builder, statement, phase, dbRows, tree, copy>>

\* What an element handed to Promise.all has settled to, if it has
Settled(got) ==
    IF got.state = "result" THEN "resolved" ELSE requests[got.request].status

ValueOf(got) ==
    IF got.state = "result" THEN got ELSE requests[got.request].result

\* Promise.all of a fetchColumnInfo call resolves with the column infos.
FetchResolve(f) ==
    /\ fetches[f].status = "pending"
    /\ \A i \in DOMAIN fetches[f].got : Settled(fetches[f].got[i]) = "resolved"
    /\ fetches' = [fetches EXCEPT ![f] =
                      [tables |-> fetches[f].tables, got |-> fetches[f].got,
                       status |-> "resolved",
                       value |-> [i \in DOMAIN fetches[f].got |->
                                     ValueOf(fetches[f].got[i])]]]
    /\ UNCHANGED <<vars, transactionCall, getterCall, columnInfo, requests>>
    /\ UNCHANGED <<query, builder, statement, phase, dbRows, tree, copy>>

FetchReject(f) ==
    /\ fetches[f].status = "pending"
    /\ \E i \in DOMAIN fetches[f].got : Settled(fetches[f].got[i]) = "rejected"
    /\ fetches' = [fetches EXCEPT ![f] =
                      [tables |-> fetches[f].tables, got |-> fetches[f].got,
                       status |-> "rejected"]]
    /\ UNCHANGED <<vars, transactionCall, getterCall, columnInfo, requests>>
    /\ UNCHANGED <<query, builder, statement, phase, dbRows, tree, copy>>

InitFetch == InserterNew /\ OutsideInserterIdle

NextFetch ==
    \/ FetchColumnInfo
    \/ \E r \in 1..Len(requests) : ColumnInfoResolve(r)
    \/ \E r \in 1..Len(requests) : ColumnInfoReject(r)
    \/ \E f \in 1..Len(fetches) : FetchResolve(f)
    \/ \E f \in 1..Len(fetches) : FetchReject(f)

SpecFetch == InitFetch /\ [][NextFetch]_allVars

\* The column lists the resolved fetchColumnInfo calls received for a table
Received(table) ==
    {columns \in ColumnLists :
        \E f \in 1..Len(fetches) : \E i \in DOMAIN fetches[f].tables :
            /\ fetches[f].status = "resolved"
            /\ fetches[f].tables[i] = table
            /\ fetches[f].value[i].columns = columns}

\* C15: however concurrent fetchColumnInfo calls interleave, the column
\* metadata request of a table is issued at most once, all callers waiting on
\* the table receive the same column list, and a cache entry that holds a
\* resolved column list never changes.
C15_ColumnInfoRequestedOnce ==
    /\ [](\A table \in Tables :
              /\ Cardinality({r \in 1..Len(requests) : requests[r].table = table}) <= 1
              /\ Cardinality(Received(table)) <= 1)
    /\ [][\A table \in Tables :
              columnInfo[table].state = "result" =>
                  columnInfo'[table] = columnInfo[table]]_allVars

\* Two calls that asked for the same table while its request was pending,
\* and a third that found the result in the cache, have all resolved.
C15_Witness ==
    \E table \in Tables : \E f \in 1..Len(fetches) : \E g \in 1..Len(fetches) :
    \E h \in 1..Len(fetches) : \E i \in 1..Cardinality(Tables) :
        /\ f < g
        /\ \A x \in {f, g, h} : fetches[x].status = "resolved"
        /\ fetches[g].tables = <<table>> /\ fetches[g].got[1].state = "promise"
        /\ fetches[h].tables = <<table>> /\ fetches[h].got[1].state = "result"
        /\ i \in DOMAIN fetches[f].tables /\ fetches[f].tables[i] = table
        /\ Len(fetches[f].tables) > 1

(***************************************************************************)
(* Join builder: build (RelationJoinBuilder.build, doBuild, encode)        *)
(*                                                                         *)
(* A string that can hold the separator (a path, an alias, a row key) is   *)
(* modelled by the list of its segments, str.split(sep): the empty string  *)
(* is <<"">>, 'a:b' is <<"a", "b">>.  Joining with the separator is        *)
(* concatenation of the lists.  A relation name, a column name and a table *)
(* name hold no separator.                                                 *)
(***************************************************************************)
MaxPaths == 3

idLengthLimit == 63

EmptyString == <<"">>

\* null or undefined where a string is expected
NoString == <<>>

RECURSIVE lengthFrom(_, _)
lengthFrom(str, i) ==
    IF i > Len(str) THEN 0
    ELSE Len(str[i]) + (IF i > 1 THEN 1 ELSE 0) + lengthFrom(str, i + 1)

\* str.length
length(str) == lengthFrom(str, 1)

joinPath(path, nextPart) ==
    IF path # EmptyString THEN path \o nextPart ELSE nextPart

joinTableForPath(path) == [path EXCEPT ![Len(path)] = @ \o "_join"]

\* relation.isOneToOne(), relation.joinTable, relation.joinTableExtras
isOneToOne(kind) == kind = "HasOne"

joinTable(kind) == kind = "ManyToMany"

joinTableExtras(kind) ==
    IF kind = "ManyToMany"
    THEN <<[joinTableCol |-> "extra", aliasCol |-> "extra"]>>
    ELSE <<>>

getIdColumnArray == <<"id">>

\* constructor
RelationJoinBuilder(opt) ==
    [opt |-> opt, encodings |-> <<>>, decodings |-> <<>>, encIdx |-> 0,
     pathInfo |-> <<>>]


nextEncodedPath(b) == <<"_t" \o ToString(b.encIdx + 1)>>

\* this.opt.aliases[part] || part
aliasOf(b, part) ==
    IF part \in DOMAIN b.opt.aliases /\ b.opt.aliases[part] \notin {NoString, EmptyString}
    THEN b.opt.aliases[part]
    ELSE <<part>>

\* encode(path): the builder afterwards and the encoded path
encode(b, path) ==
    IF path \in DOMAIN b.encodings /\ b.encodings[path] # EmptyString
    THEN [builder |-> b, encPath |-> b.encodings[path]]
    ELSE LET fresh == b.opt.minimize /\ path # EmptyString
             encPath == IF path = EmptyString THEN path
                        ELSE IF b.opt.minimize THEN nextEncodedPath(b)
                        ELSE Concat([i \in DOMAIN path |-> aliasOf(b, path[i])])
         IN  [builder |->
                 [b EXCEPT !.encodings = (path :> encPath) @@ @,
                           !.decodings = (encPath :> path) @@ @,
                           !.encIdx = IF fresh THEN @ + 1 ELSE @],
              encPath |-> encPath]

\* decode(path): undefined for an alias that was never handed out
decode(b, encPath) ==
    IF encPath \in DOMAIN b.decodings THEN b.decodings[encPath] ELSE NoString

\* this.pathInfo[path]: its position in insertion order, 0 when undefined
pathInfoIndex(b, path) ==
    IF \E k \in DOMAIN b.pathInfo : b.pathInfo[k].path = path
    THEN CHOOSE k \in DOMAIN b.pathInfo : b.pathInfo[k].path = path
    ELSE 0

\* this.pathInfo[path] = info
setPathInfo(b, info) ==
    IF pathInfoIndex(b, info.path) = 0
    THEN [b EXCEPT !.pathInfo = Append(@, info)]
    ELSE [b EXCEPT !.pathInfo[pathInfoIndex(b, info.path)] = info]

\* parentInfo.children[relation.name] = info
setChild(children, name, path) ==
    IF \E k \in DOMAIN children : children[k].name = name
    THEN [k \in DOMAIN children |->
             IF children[k].name = name THEN [name |-> name, path |-> path]
             ELSE children[k]]
    ELSE Append(children, [name |-> name, path |-> path])

\* createPathInfo followed by this.pathInfo[path] = info, for node i of the
\* expression at `path` under the path info of parentPath (none for the root)
createPathInfo(b, q, i, path, parentPath) ==
    LET enc == encode(b, path)
        root == parentPath = NoString
        parent == pathInfoIndex(enc.builder, parentPath)
        info == [path |-> path,
                 encPath |-> enc.encPath,
                 parentPath |-> parentPath,
                 encParentPath |-> IF root THEN NoString
                                   ELSE enc.builder.pathInfo[parent].encPath,
                 modelClass |-> q.table[i],
                 relation |-> IF root THEN "" ELSE q.name[i],
                 oneToOne |-> ~root /\ isOneToOne(q.kind[i]),
                 idCols |-> [k \in DOMAIN getIdColumnArray |->
                                joinPath(enc.encPath, <<getIdColumnArray[k]>>)],
                 omitCols |-> {},
                 children |-> <<>>]
        linked == IF root THEN enc.builder
                  ELSE [enc.builder EXCEPT !.pathInfo[parent].children =
                            setChild(@, q.name[i], path)]
    IN  setPathInfo(linked, info)

\* A select filter that passes every column
selectFilterPassAll(q, i, col) == TRUE

\* selectFilter(col): the caller's query at the path selects the column
selectFilter(q, i, col) == col \in q.selection[i]

\* buildSelects for node i at `path`: the builder afterwards, the selects it
\* puts on the query, and the alias a ValidationError reports
buildSelects(b, ci, q, i, path) ==
    LET at == pathInfoIndex(b, path)
        info == b.pathInfo[at]
        idCols == getIdColumnArray
        columns == ci[q.table[i]].columns
        included == SelectSeq(columns, LAMBDA col :
                        selectFilter(q, i, col) \/ col \in Range(idCols))
        extras == IF i = 1 THEN <<>> ELSE joinTableExtras(q.kind[i])
        enc == IF extras # <<>> THEN encode(b, joinTableForPath(info.path))
               ELSE [builder |-> b, encPath |-> NoString]
        selected == SelectSeq(extras, LAMBDA extra :
                        selectFilter(q, i, extra.joinTableCol))
        selects ==
            [k \in DOMAIN included |->
                [table |-> IF info.encPath # EmptyString THEN info.encPath
                           ELSE <<q.table[1]>>,
                 col |-> included[k],
                 alias |-> joinPath(info.encPath, <<included[k]>>),
                 path |-> path]]
            \o [k \in DOMAIN selected |->
                [table |-> enc.encPath,
                 col |-> selected[k].joinTableCol,
                 alias |-> joinPath(info.encPath, <<selected[k].aliasCol>>),
                 path |-> path]]
        tooLongAliases == SelectSeq(selects, LAMBDA select :
                              length(select.alias) > idLengthLimit)
    IN  [builder |-> [enc.builder EXCEPT !.pathInfo[at].omitCols =
                         {col \in Range(included) : ~selectFilter(q, i, col)}],
         selects |-> selects,
         error |-> IF tooLongAliases # <<>> THEN tooLongAliases[1].alias
                   ELSE NoString]

\* forEachExpr: the nodes of the child expressions of node i, in the order
\* of the relation array
childExpressions(q, i) == SelectSeq(Ids(q.n), LAMBDA c : q.parent[c] = i)

\* doBuild for node i at `path`, and the forEachExpr callback of doBuild for
\* the child expressions of node i from the k-th on.  b is the join builder,
\* st the statement built so far; a ValidationError ends the build.
RECURSIVE doBuild(_, _, _, _, _, _, _)
RECURSIVE doBuildChildren(_, _, _, _, _, _, _)
doBuild(b, st, ci, q, i, path, parentPath) ==
    LET created == createPathInfo(b, q, i, path, parentPath)
        built == buildSelects(created, ci, q, i, path)
        selected == [st EXCEPT !.selects = @ \o built.selects,
                               !.error = built.error]
    IN  IF built.error # NoString
        THEN [builder |-> built.builder, statement |-> selected]
        ELSE doBuildChildren(built.builder, selected, ci, q, i, path, 1)

doBuildChildren(b, st, ci, q, i, path, k) ==
    IF k > Len(childExpressions(q, i)) \/ st.error # NoString
    THEN [builder |-> b, statement |-> st]
    ELSE LET c == childExpressions(q, i)[k]
             nextPath == joinPath(path, <<q.name[c]>>)
             encNextPath == encode(b, nextPath)
             encJoinTablePath ==
                 IF joinTable(q.kind[c])
                 THEN encode(encNextPath.builder, joinTableForPath(nextPath))
                 ELSE [builder |-> encNextPath.builder, encPath |-> NoString]
             joined == [st EXCEPT !.joins = Append(@,
                           [ownerTable |-> b.pathInfo[pathInfoIndex(b, path)].encPath,
                            relatedTableAlias |-> encNextPath.encPath,
                            joinTableAlias |-> encJoinTablePath.encPath])]
             child == doBuild(encJoinTablePath.builder, joined, ci, q, c,
                              nextPath, path)
         IN  doBuildChildren(child.builder, child.statement, ci, q, i, path, k + 1)

\* build(builder)
build(b, ci, q) ==
    doBuild(b, [selects |-> <<>>, joins |-> <<>>, error |-> NoString],
            ci, q, 1, EmptyString, NoString)

(***************************************************************************)
(* Eager queries: the expressions, options and selections a build gets     *)
(***************************************************************************)
Long29 == "aaaaaaaaaaaaaaaaaaaaaaaaaaaaa"

Long30 == "bbbbbbbbbbbbbbbbbbbbbbbbbbbbbb"

RelationNames == {"a", "b", Long29, Long30}

JoinRelationKinds == {"HasOne", "HasMany", "ManyToMany"}

\* What the caller's query selects at a path: everything, one column, or
\* nothing of the table
Selections == {{"id", "name", "extra"}, {"name"}, {}}

\* opt.aliases: no override, an override to the name of another relation,
\* and an override to a name of its own
AliasTables == [{"a"} -> {NoString, <<"b">>, <<"x">>}]

Options ==
    {[minimize |-> TRUE, aliases |-> [part \in {"a"} |-> NoString]]}
    \cup {[minimize |-> FALSE, aliases |-> aliases] : aliases \in AliasTables}

\* The expression trees of n paths in depth-first order, with the relation
\* of every non-root node i, named by one of names[i]; the relations of one
\* model class differ in name.
Expressions(n, names, kinds) ==
    {e \in [n : {n},
            parent : {p \in ParentFns(n) : \A i \in 2..n : p[i] # 0},
            name : Product(n, [i \in 1..n |-> IF i = 1 THEN {""} ELSE names[i]]),
            kind : Product(n, [i \in 1..n |-> IF i = 1 THEN {"root"} ELSE kinds]),
            table : {[i \in 1..n |-> IF i = 1 THEN "A" ELSE "B"]}] :
        \A i \in 2..n : \A j \in 2..n :
            i # j /\ e.parent[i] = e.parent[j] => e.name[i] # e.name[j]}

\* An eager query: an expression, the selection at every path and the
\* identifier values the database holds for every path in every joined row.
Query(e, selection, database) ==
    [n |-> e.n, parent |-> e.parent, name |-> e.name, kind |-> e.kind,
     table |-> e.table, selection |-> selection, database |-> database]

\* The column info cache after fetchColumnInfo has resolved for all tables
Fetched ==
    LET tables == CHOOSE l \in TableLists : Len(l) = Cardinality(Tables)
        stored(r) == [state |-> "result", columns |-> <<"id", "name">>,
                      request |-> r]
        promise(r) == [state |-> "promise", request |-> r]
    IN  /\ columnInfo = [t \in Tables |->
                            stored(CHOOSE r \in DOMAIN tables : tables[r] = t)]
        /\ requests = [r \in DOMAIN tables |->
                          [table |-> tables[r], status |-> "resolved",
                           result |-> stored(r)]]
        /\ fetches = <<[tables |-> tables,
                        got |-> [r \in DOMAIN tables |-> promise(r)],
                        status |-> "resolved",
                        value |-> [r \in DOMAIN tables |-> stored(r)]]>>

\* One joined row in which every path has the identifier 1
OneRow(n) == <<[i \in 1..n |-> JsNumber(1)]>>

\* A join builder was constructed for the query and fetchColumnInfo resolved.
EagerQuery(q, opt) ==
    /\ InserterNew
    /\ transactionCall = NotCalled
    /\ getterCall = NotCalled
    /\ Fetched
    /\ query = q
    /\ builder = RelationJoinBuilder(opt)
    /\ statement = [selects |-> <<>>, joins |-> <<>>, error |-> NoString]
    /\ phase = "new"
    /\ dbRows = <<>>
    /\ tree = <<>>
    /\ copy = [cloned |-> FALSE]

\* Every expression of up to MaxPaths paths with every selection and every
\* option, over a result of one row
InitBuild ==
    \E n \in 1..MaxPaths :
    \E e \in Expressions(n, [i \in 1..n |-> RelationNames], JoinRelationKinds) :
    \E selection \in [1..n -> Selections] :
    \E opt \in Options :
        EagerQuery(Query(e, selection, OneRow(n)), opt)

MaxRows == 2

\* The identifier values of the joined rows: null (an outer-join miss), the
\* number 0 and two other numbers
TreeIdValues == {JsNull, JsNumber(0), JsNumber(1), JsNumber(2)}

\* Every expression of one-to-one and one-to-many relations with every
\* result of up to MaxRows rows; the caller selects every column.
InitTree ==
    \E n \in 1..MaxPaths :
    \E e \in Expressions(n, [i \in 1..n |-> {"r" \o ToString(i)}],
                         {"HasOne", "HasMany"}) :
    \E m \in 0..MaxRows :
    \E database \in [1..m -> [1..n -> TreeIdValues]] :
        EagerQuery(Query(e, [i \in 1..n |-> {"id", "name", "extra"}], database),
                   [minimize |-> FALSE, aliases |-> [part \in {"a"} |-> NoString]])

\* build(builder): a ValidationError ends the eager query.
Build ==
    /\ phase = "new"
    /\ \E after \in {build(builder, columnInfo, query)} :
           /\ builder' = after.builder
           /\ statement' = after.statement
           /\ phase' = IF after.statement.error = NoString THEN "built"
                       ELSE "ValidationError"
    /\ UNCHANGED <<vars, transactionCall, getterCall, cacheVars, query, dbRows, tree,
                   copy>>


(***************************************************************************)
(* Join builder: rowsToTree                                                *)
(*                                                                         *)
(* The objects rowsToTree creates live in a heap, in creation order.  An   *)
(* object has the columns it was created with (json), the row that created *)
(* it and its relation properties (rels).  A relation property is a branch *)
(* (the id-keyed map of a one-to-many relation, in insertion order), a     *)
(* model (one-to-one), and after finalization an array or null; `items`    *)
(* holds the identifiers and heap positions of the related objects.        *)
(***************************************************************************)
RelValue(kind, items) == [kind |-> kind, items |-> items]

Entry(id, obj) == [id |-> id, obj |-> obj]

\* createKeyInfo: for every encoded path the (key, column) pairs of the keys
\* of the first row, without the omitted columns; `error` when a key belongs
\* to no path info (a property of undefined is read)
createKeyInfo(b, rows) ==
    LET keys == DOMAIN rows[1]
        pathOf(key) == IF Len(key) = 1 THEN EmptyString
                       ELSE decode(b, SubSeq(key, 1, Len(key) - 1))
        colOf(key) == key[Len(key)]
        at(key) == pathInfoIndex(b, pathOf(key))
        kept == {key \in keys : at(key) # 0 /\ colOf(key) \notin b.pathInfo[at(key)].omitCols}
        encPaths == {b.pathInfo[at(key)].encPath : key \in kept}
    IN  [error |-> \E key \in keys : at(key) = 0,
         byPath |-> [encPath \in encPaths |->
                        {[key |-> key, col |-> colOf(key)] :
                            key \in {k \in kept : b.pathInfo[at(k)].encPath = encPath}}]]

\* Model.fromDatabaseJson(json): an object with the properties of json
fromDatabaseJson(json) == json

\* createModel: `error` when no key info exists for the path
createModel(row, pInfo, keyInfoByPath) ==
    IF pInfo.encPath \notin DOMAIN keyInfoByPath
    THEN [error |-> TRUE, json |-> <<>>]
    ELSE LET keyInfo == keyInfoByPath[pInfo.encPath]
         IN  [error |-> FALSE,
              json |-> fromDatabaseJson(
                  [col \in {kInfo.col : kInfo \in keyInfo} |->
                      Get(row, (CHOOSE kInfo \in keyInfo : kInfo.col = col).key)])]

\* The entry for id in a branch, 0 when there is none
entryIndex(items, id) ==
    IF \E k \in DOMAIN items : items[k].id = id
    THEN CHOOSE k \in DOMAIN items : items[k].id = id
    ELSE 0

TypeError(st) == [st EXCEPT !.error = "TypeError"]

\* The body of the inner loop of rowsToTree for row r and path info j.  st
\* holds the heap, the root branch `tree`, the stack and a raised error.
visit(st, b, keyInfoByPath, rows, r, j) ==
    LET row == rows[r]
        pInfo == b.pathInfo[j]
        id == idGetter(pInfo.idCols, row)
        created == createModel(row, pInfo, keyInfoByPath)
        new == Len(st.objs) + 1
        obj == [path |-> j, json |-> created.json, row |-> r, rels |-> <<>>]
        stacked(o) == (pInfo.encPath :> o) @@ st.stack
    IN  IF Falsy(id) THEN st
        ELSE IF pInfo.relation = ""
        THEN \* curBranch is the tree
             IF entryIndex(st.tree, id) # 0
             THEN [st EXCEPT !.stack = stacked(st.tree[entryIndex(st.tree, id)].obj)]
             ELSE IF created.error THEN TypeError(st)
             ELSE [st EXCEPT !.objs = Append(@, obj),
                             !.tree = Append(@, Entry(id, new)),
                             !.stack = stacked(new)]
        ELSE IF pInfo.encParentPath \notin DOMAIN st.stack
        THEN \* parentModel is undefined
             TypeError(st)
        ELSE LET parentModel == st.stack[pInfo.encParentPath]
                 has == pInfo.relation \in DOMAIN st.objs[parentModel].rels
                 \* getBranch, or createBranch when there is none
                 branch == IF has THEN st.objs[parentModel].rels[pInfo.relation].items
                           ELSE <<>>
                 \* getModelFromBranch
                 found == IF pInfo.oneToOne
                          THEN (IF branch # <<>> THEN 1 ELSE 0)
                          ELSE entryIndex(branch, id)
                 \* setModelToBranch
                 set == IF pInfo.oneToOne
                        THEN RelValue("model", <<Entry(id, new)>>)
                        ELSE RelValue("branch", Append(branch, Entry(id, new)))
             IN  IF found # 0
                 THEN [st EXCEPT !.stack = stacked(branch[found].obj)]
                 ELSE IF created.error
                 THEN TypeError(
                          [st EXCEPT !.objs[parentModel].rels =
                               IF has \/ pInfo.oneToOne THEN @
                               ELSE (pInfo.relation :> RelValue("branch", <<>>)) @@ @])
                 ELSE [st EXCEPT !.objs = Append(
                                     [@ EXCEPT ![parentModel].rels =
                                         (pInfo.relation :> set) @@ @], obj),
                                 !.stack = stacked(new)]

\* The loops of rowsToTree from row r, path info j on; an error ends them.
RECURSIVE rowsToTreeLoop(_, _, _, _, _, _)
rowsToTreeLoop(st, b, keyInfoByPath, rows, r, j) ==
    IF r > Len(rows) \/ st.error # "" THEN st
    ELSE IF j > Len(b.pathInfo)
    THEN rowsToTreeLoop(st, b, keyInfoByPath, rows, r + 1, 1)
    ELSE rowsToTreeLoop(visit(st, b, keyInfoByPath, rows, r, j),
                        b, keyInfoByPath, rows, r, j + 1)


\* childPathInfo.finalizeBranch(model[relName], model): the relation
\* properties of the parent model afterwards.  PathInfo stores the values of
\* the branch (none for an undefined branch), OneToOnePathInfo the model or
\* null.
finalizeBranch(pInfo, rels) ==
    LET branch == IF pInfo.relation \in DOMAIN rels
                  THEN rels[pInfo.relation].items ELSE <<>>
    IN  IF pInfo.oneToOne
        THEN (pInfo.relation :> RelValue(IF branch # <<>> THEN "model" ELSE "null",
                                         branch)) @@ rels
        ELSE (pInfo.relation :> RelValue("array", branch)) @@ rels

\* finalizeOne for the relation names from position k on
RECURSIVE finalizeOneFrom(_, _, _, _)
finalizeOneFrom(b, pInfo, rels, k) ==
    IF k > Len(pInfo.children) THEN rels
    ELSE finalizeOneFrom(b, pInfo,
             finalizeBranch(b.pathInfo[pathInfoIndex(b, pInfo.children[k].path)], rels),
             k + 1)

\* finalize(pInfo, models) and its recursion into the finalized relations:
\* todo lists the heap positions of the models still to be finalized.
RECURSIVE finalizeModels(_, _, _)
finalizeModels(b, objs, todo) ==
    IF todo = <<>> THEN objs
    ELSE LET o == Head(todo)
             pInfo == b.pathInfo[objs[o].path]
             rels == finalizeOneFrom(b, pInfo, objs[o].rels, 1)
             finalized == Concat([k \in DOMAIN pInfo.children |->
                              [e \in DOMAIN rels[pInfo.children[k].name].items |->
                                  rels[pInfo.children[k].name].items[e].obj]])
         IN  finalizeModels(b, [objs EXCEPT ![o].rels = rels], finalized \o Tail(todo))

\* rowsToTree(rows): the array of root models it returns, the heap of the
\* models, and the error it throws instead
rowsToTree(b, rows) ==
    IF rows = <<>>
    THEN [returned |-> <<>>, objs |-> <<>>, error |-> ""]
    ELSE LET keyInfo == createKeyInfo(b, rows)
             start == [objs |-> <<>>, tree |-> <<>>, stack |-> <<>>, error |-> ""]
             st == IF keyInfo.error THEN TypeError(start)
                   ELSE rowsToTreeLoop(start, b, keyInfo.byPath, rows, 1, 1)
             roots == [k \in DOMAIN st.tree |-> st.tree[k].obj]
         IN  IF st.error # ""
             THEN [returned |-> <<>>, objs |-> st.objs, error |-> st.error]
             ELSE [returned |-> roots,
                   objs |-> finalizeModels(b, st.objs, roots),
                   error |-> ""]

\* The value of a column that is not an identifier column in joined row r
ColumnText(r) == JsString("text" \o ToString(r))

\* The rows the database returns for the statement: one per joined row of
\* the data, with a key for every select alias.  An identifier column holds
\* the path's identifier, any other column a text of its row (ColumnText), or
\* null in an outer-join miss.
resultRows(b, st, database) ==
    [r \in DOMAIN database |->
        [alias \in {st.selects[k].alias : k \in DOMAIN st.selects} |->
            LET select == st.selects[CHOOSE k \in DOMAIN st.selects :
                                         st.selects[k].alias = alias]
                id == database[r][pathInfoIndex(b, select.path)]
            IN  IF select.col \in Range(getIdColumnArray) THEN id
                ELSE IF id = JsNull THEN JsNull
                ELSE ColumnText(r)]]

\* The database refuses a statement that uses one alias for two tables.
AliasesDistinct(q, st) ==
    LET used == <<<<q.table[1]>>>>
                \o Concat([k \in DOMAIN st.joins |->
                       <<st.joins[k].relatedTableAlias>>
                       \o (IF st.joins[k].joinTableAlias = NoString THEN <<>>
                           ELSE <<st.joins[k].joinTableAlias>>)])
    IN  \A i \in DOMAIN used : \A j \in DOMAIN used : i # j => used[i] # used[j]

\* The statement is executed.
Execute ==
    /\ phase = "built"
    /\ IF AliasesDistinct(query, statement)
       THEN /\ dbRows' = resultRows(builder, statement, query.database)
            /\ phase' = "executed"
       ELSE /\ dbRows' = dbRows
            /\ phase' = "QueryError"
    /\ UNCHANGED <<vars, transactionCall, getterCall, cacheVars, query, builder,
                   statement, tree, copy>>

\* rowsToTree(rows) on the result
RowsToTree ==
    /\ phase = "executed"
    /\ tree' = rowsToTree(builder, dbRows)
    /\ phase' = IF tree'.error = "" THEN "done" ELSE tree'.error
    /\ UNCHANGED <<vars, transactionCall, getterCall, cacheVars, query, builder,
                   statement, dbRows, copy>>

\* C13: after a build, in the default mode with any alias override table and
\* in the minimize mode, decode(encode(path)) is the path again for every
\* path the build encoded (relation paths and join-table paths): no two
\* distinct paths were given the same alias.
C13_DecodeInvertsEncode ==
    phase \notin {"idle", "new"} =>
        \A path \in DOMAIN builder.encodings :
            LET enc == encode(builder, path)
            IN  decode(enc.builder, enc.encPath) = path

\* The aliases a build computed: column aliases, related-table aliases and
\* join-table aliases
ColumnAliases == {statement.selects[k].alias : k \in DOMAIN statement.selects}

RelatedTableAliases ==
    {statement.joins[k].relatedTableAlias : k \in DOMAIN statement.joins}

JoinTableAliases ==
    {statement.joins[k].joinTableAlias : k \in DOMAIN statement.joins} \ {NoString}

TooLong(aliases) == {alias \in aliases : length(alias) > idLengthLimit}

\* C14: building the statement raises a ValidationError whenever an alias it
\* computes (column alias, related-table alias or join-table alias) is longer
\* than 63 characters; aliases of exactly 63 characters are accepted; the
\* error is raised during the build, before the statement is executed.
C14_TooLongAliasRaises ==
    phase \notin {"idle", "new"} =>
        /\ TooLong(ColumnAliases \cup RelatedTableAliases \cup JoinTableAliases) # {}
               => phase = "ValidationError"
        /\ phase = "ValidationError" =>
               /\ TooLong(ColumnAliases) # {}
               /\ dbRows = <<>>

NextJoin ==
    \/ Build
    \/ Execute
    \/ RowsToTree

SpecBuild == InitBuild /\ [][NextJoin]_allVars

SpecTree == InitTree /\ [][NextJoin]_allVars

\* The table columns the build put in the select list for path info j
SelectedColumns(j) ==
    {col \in Range(columnInfo[query.table[j]].columns) :
        \E k \in DOMAIN statement.selects :
            /\ statement.selects[k].path = builder.pathInfo[j].path
            /\ statement.selects[k].col = col
            /\ statement.selects[k].alias = joinPath(builder.pathInfo[j].encPath, <<col>>)}

Absent(j, r) == idGetter(builder.pathInfo[j].idCols, dbRows[r]) = JsNull

\* C18: in rowsToTree, when the identifier of a path is absent in a row,
\* neither that path nor any path below it creates, attaches or updates an
\* object for that row, whatever the row holds in the columns of the paths
\* below.
C18_AbsentIdSkipsDescendants ==
    phase \in {"done", "TypeError"} =>
        \A o \in DOMAIN tree.objs :
            \A j \in AncOrSelf(query.parent, tree.objs[o].path) :
                ~Absent(j, tree.objs[o].row)

\* The identifier the data holds for path j in joined row r
Data(r, j) == query.database[r][j]

\* The object under whose relation property object o hangs
ParentObj(o) ==
    CHOOSE p \in DOMAIN tree.objs :
        \E name \in DOMAIN tree.objs[p].rels :
            \E k \in DOMAIN tree.objs[p].rels[name].items :
                tree.objs[p].rels[name].items[k].obj = o

\* Row r holds object o: the identifiers of o and of the objects above it
RECURSIVE Holds(_, _)
Holds(r, o) ==
    /\ Data(r, tree.objs[o].path) = tree.objs[o].json["id"]
    /\ tree.objs[o].path = 1 \/ Holds(r, ParentObj(o))

\* The distinct non-null identifiers of path j in the rows that satisfy
\* `in`, in order of first appearance
IdsInOrder(j, in) ==
    Uniq(SelectSeq([r \in DOMAIN query.database |-> Data(r, j)],
                   LAMBDA id : id # JsNull /\ id \in {Data(r, j) : r \in in}))

\* The identifiers of the objects of a sequence of branch entries
IdsOf(items) == [k \in DOMAIN items |-> tree.objs[items[k].obj].json["id"]]

\* C11: for a non-empty row set rowsToTree returns one root object per
\* distinct root identifier, in order of first appearance, and under every
\* parent object a one-to-many relation holds exactly one object per distinct
\* child identifier that appears in a row together with that parent, in order
\* of first appearance; a repeated child identifier adds nothing.
C11_OneObjectPerIdentifier ==
    phase = "done" /\ dbRows # <<>> =>
        /\ [k \in DOMAIN tree.returned |-> tree.objs[tree.returned[k]].json["id"]]
               = IdsInOrder(1, DOMAIN query.database)
        /\ \A o \in DOMAIN tree.objs : \A c \in 2..query.n :
               query.parent[c] = tree.objs[o].path /\ ~isOneToOne(query.kind[c]) =>
                   IdsOf(tree.objs[o].rels[query.name[c]].items)
                       = IdsInOrder(c, {r \in DOMAIN query.database : Holds(r, o)})

\* The rows that hold object o and supply a non-null identifier for its
\* child path c
Supplied(o, c) ==
    {r \in DOMAIN query.database : Holds(r, o) /\ Data(r, c) # JsNull}

\* C12: after rowsToTree every object built at a path carries a key for
\* every child relation of the expression at that path; a one-to-one
\* relation holds a single non-empty object, or null when no row supplied a
\* non-null identifier for it, and a one-to-many relation holds an array,
\* empty when no row supplied a child.
C12_EveryRelationKeyPresent ==
    phase = "done" =>
        \A o \in DOMAIN tree.objs : \A c \in 2..query.n :
            query.parent[c] = tree.objs[o].path =>
                /\ query.name[c] \in DOMAIN tree.objs[o].rels
                /\ LET value == tree.objs[o].rels[query.name[c]]
                   IN  IF isOneToOne(query.kind[c])
                       THEN IF Supplied(o, c) = {}
                            THEN value.kind = "null" /\ value.items = <<>>
                            ELSE /\ value.kind = "model"
                                 /\ Len(value.items) = 1
                                 /\ tree.objs[value.items[1].obj].path = c
                                 /\ DOMAIN tree.objs[value.items[1].obj].json # {}
                       ELSE /\ value.kind = "array"
                            /\ Supplied(o, c) = {} => value.items = <<>>

(***************************************************************************)
(* Further claims about the graph inserter                                 *)
(***************************************************************************)
\* The nodes whose objects were passed to the insert callback in batch b
NodesOfBatch(b) ==
    UNION {Range(calls[c].nodes) : c \in {x \in EntityCalls : calls[x].batch = b}}

\* C21: no two nodes selected into the same batch are connected by a needs
\* edge, in either direction and also within one table, so no insert of a
\* batch reads an identifier that another insert of the same batch produces.
C21_BatchNodesIndependent ==
    \A b \in EntityBatches : \A n \in NodesOfBatch(b) : \A m \in NodesOfBatch(b) :
        /\ m \notin NeedsOf(graph, n)
        /\ \A e \in EdgesTo(n) : e[1] # m

C21_Witness ==
    \E b \in EntityBatches :
        /\ b >= 2
        /\ \E c \in EntityCalls : calls[c].batch = b /\ Len(calls[c].nodes) >= 2
        /\ \E n \in NodesOfBatch(b) : NeedsOf(graph, n) # {}

\* numHandledNeeds of node j counts the entries of its needs whose node is
\* handled
CountersAgree(j) ==
    /\ numHandledNeeds[j] <= Len(graph.needs[j])
    /\ numHandledNeeds[j] =
           Cardinality({k \in DOMAIN graph.needs[j] : handled[graph.needs[j][k].node]})

\* The nodes whose objects a step passes to the insert callback
NewlyPassed ==
    UNION {Range(calls'[c].nodes) : c \in (Len(calls) + 1)..Len(calls')}

\* A step selects a node only when it is unhandled with every need handled,
\* and leaves a handled node handled and unselected
SelectsEligibleOnce ==
    \A n \in 1..graph.n :
        /\ n \in NewlyPassed =>
               ~handled[n] /\ numHandledNeeds[n] = Len(graph.needs[n])
        /\ handled[n] => handled'[n] /\ n \notin NewlyPassed

Completes(c) == calls[c].status = "pending" /\ calls'[c].status = "resolved"

\* C23: every TableInsertion passed to the insert callback has models and
\* isInputModel lists of equal length; in an entity TableInsertion
\* isInputModel[i] is true exactly when models[i] is a top-level input object;
\* in a join-table TableInsertion every isInputModel entry is false, no uid
\* is stripped, and no dependency is resolved when it completes.
C23_IsInputModelParallel ==
    /\ [](\A c \in 1..Len(calls) :
              /\ Len(calls[c].isInputModel) = Len(calls[c].models)
              /\ c \in EntityCalls =>
                     \A i \in DOMAIN calls[c].models :
                         calls[c].isInputModel[i] <=> graph.parent[calls[c].nodes[i]] = 0
              /\ c \in JoinCalls =>
                     /\ \A i \in DOMAIN calls[c].isInputModel : ~calls[c].isInputModel[i]
                     /\ calls[c].uids = <<>>)
    /\ [][\A c \in JoinCalls : Completes(c) => model' = model]_allVars
    /\ [][(\E c \in (Len(calls) + 1)..Len(calls') : calls'[c].isJoinTableInsertion)
              => \A i \in DOMAIN model :
                     Has(model[i], uidProp) <=> Has(model'[i], uidProp)]_allVars

C23_Witness ==
    /\ \E c \in JoinCalls :
           /\ calls[c].status = "resolved"
           /\ Len(calls[c].models) <
                  Cardinality({e \in Connections : JoinTableOf(e) = calls[c].tableName})
    /\ \E c \in EntityCalls : \E i, j \in DOMAIN calls[c].isInputModel :
           calls[c].isInputModel[i] /\ ~calls[c].isInputModel[j]

\* The join rows built for the join table of invocation c, in node order
\* then connection order, before duplicates are removed.  The identifiers and
\* extras the rows are made of do not change once the join batch exists.
BuiltRows(c) ==
    LET sel == SelectSeq(JoinRows(graph, model),
                         LAMBDA e : e.tableName = calls[c].tableName)
    IN  [i \in 1..Len(sel) |-> sel[i].row]

HasKey(row, key) == \E i \in 1..Len(row) : row[i].k = key

\* Two join rows agree on a key: both lack it, or both hold the same value
AgreeOn(r1, r2, key) ==
    /\ HasKey(r1, key) <=> HasKey(r2, key)
    /\ HasKey(r1, key) => RowValue(r1, key) = RowValue(r2, key)

\* The union of the keys of the rows
UnionKeys(rows) == UNION {Range(RowKeys(rows[i])) : i \in 1..Len(rows)}

Agree(r1, r2, rows) == \A key \in UnionKeys(rows) : AgreeOn(r1, r2, key)

\* C24: two join rows of one join table are duplicates exactly when they
\* agree on every key of the union of the keys of all rows built for the
\* table, a missing key counting as undefined: the rows passed to the insert
\* callback are the built rows without those that agree with an earlier one,
\* so rows of one owner/related pair that differ in an extra are both kept
\* and of duplicates the first in node order is kept.
C24_DuplicatesAgreeOnUnionKeys ==
    \A c \in JoinCalls :
        LET built == BuiltRows(c)
            first == SelectSeq(Ids(Len(built)),
                         LAMBDA i : \A j \in 1..(i - 1) : ~Agree(built[j], built[i], built))
        IN  calls[c].models = [k \in 1..Len(first) |-> built[first[k]]]

\* C28: duplicate removal drops a join row only when an earlier kept row has
\* the same value for every key of the union key set: rows whose tuples of
\* key values differ are never merged, so every built row is still found
\* among the rows passed to the insert callback.
C28_DifferentRowsNeverMerged ==
    \A c \in JoinCalls :
        \A i \in DOMAIN BuiltRows(c) :
            \E k \in DOMAIN calls[c].models :
                Agree(BuiltRows(c)[i], calls[c].models[k], BuiltRows(c))

(***************************************************************************)
(* Termination on any dependency graph                                     *)
(*                                                                         *)
(* _nextBatch and _executeNextBatch run on whatever graph the inserter     *)
(* holds.  Here the graph may contain a needs-cycle (an object that        *)
(* belongs to an object which, through a reference, belongs to it): the    *)
(* graph of every nested input, without the cycle test of the build.       *)
(***************************************************************************)
AnyInputs == UNION {{[shape |-> s, extra |-> e] : e \in ExtraFns(s)} : s \in Shapes}

\* new GraphInserter(args) holding the graph of any input, then execute
ConstructAny ==
    /\ pc = "new"
    /\ \E in \in AnyInputs : \E new \in {GraphInserter(in)} :
        /\ graph' = new.graph
        /\ models' = new.models
        /\ model' = new.model
        /\ handled' = new.handled
        /\ numHandledNeeds' = new.numHandledNeeds
    /\ pc' = "running"
    /\ UNCHANGED <<done, calls, events, nextId, result>>
    /\ UNCHANGED outsideInserter

NextAnyGraph ==
    \/ ConstructAny
    \/ ExecuteNextBatch
    \/ \E c \in 1..Len(calls) : InserterResolve(c)

\* The insert callback always resolves and the event loop runs every
\* scheduled continuation.
SpecAnyGraph ==
    /\ InitNew
    /\ [][NextAnyGraph]_vars
    /\ WF_vars(ExecuteNextBatch \/ \E c \in 1..Len(calls) : InserterResolve(c))

\* The number of events of a type in the history
Count(type) == Cardinality({e \in DOMAIN events : events[e].type = type})

\* A step that selects a batch of entity insertions
SelectsEntityBatch ==
    \E c \in (Len(calls) + 1)..Len(calls') : ~calls'[c].isJoinTableInsertion

\* C30: for every finite dependency graph, also one with a needs-cycle, and
\* an insert callback that always resolves, execute terminates: every entity
\* batch marks at least one unhandled node handled, at most |nodes| entity
\* batches and one join-row batch run, then finalization runs exactly once
\* and no insert callback is invoked again.
C30_ExecuteTerminates ==
    /\ (pc = "running") ~> (pc = "resolved")
    /\ [][SelectsEntityBatch =>
              \E n \in 1..graph.n : ~handled[n] /\ handled'[n]]_allVars
    /\ [](/\ Cardinality(EntityBatches) <= graph.n
          /\ BatchesSelected <= Cardinality(EntityBatches) + 1
          /\ Cardinality({calls[c].batch : c \in JoinCalls}) <= 1
          /\ Count("finalize") <= 1
          /\ pc = "resolved" <=> Count("finalize") = 1)
    /\ [][pc = "resolved" => calls' = calls /\ events' = events]_allVars

C30_Witness ==
    /\ pc = "resolved"
    /\ IsCyclic(graph)
    /\ \E n \in NonRefNodes : ~handled[n]
    /\ \E n \in NonRefNodes : handled[n]
    /\ JoinCalls # {}

(***************************************************************************)
(* Further claims about the join builder                                   *)
(***************************************************************************)
\* C26: if the column info request of a table rejects, the cache does not
\* retain the failure: a later fetchColumnInfo call that needs the table
\* issues a new request and is never handed the promise of a request that
\* had already rejected.
C26_RejectionNotRetained ==
    [][\A f \in (Len(fetches) + 1)..Len(fetches') :
           \A i \in DOMAIN fetches'[f].got :
               (/\ fetches'[f].got[i].state = "promise"
                /\ fetches'[f].got[i].request <= Len(requests))
                   => requests[fetches'[f].got[i].request].status # "rejected"]_allVars

\* Row r lies under object o as rowsToTree merges rows: it has the
\* identifier of o, or any identifier when o hangs under a one-to-one
\* relation, and lies under the object o hangs from.
RECURSIVE Under(_, _)
Under(r, o) ==
    LET j == tree.objs[o].path
    IN  /\ IF isOneToOne(query.kind[j]) THEN Data(r, j) # JsNull
           ELSE Data(r, j) = tree.objs[o].json["id"]
        /\ j = 1 \/ Under(r, ParentObj(o))

\* C25: an object is built from the first row in which its identifier
\* appears under its parent, and later rows with the same identifier change
\* none of its column values; under a one-to-one relation the object of the
\* first row with a non-null identifier for the parent is kept, a later row
\* with another identifier does not replace it.
C25_BuiltFromFirstRow ==
    phase = "done" =>
        \A o \in DOMAIN tree.objs :
            LET under == {r \in DOMAIN query.database : Under(r, o)}
                first == CHOOSE r \in under : \A r2 \in under : r <= r2
            IN  /\ under # {}
                /\ tree.objs[o].json["id"] = Data(first, tree.objs[o].path)
                /\ tree.objs[o].json["name"] = ColumnText(first)

\* Row r has an identifier at path j and at every path above it
Present(r, j) == \A a \in AncOrSelf(query.parent, j) : Data(r, a) # JsNull

\* C29: when a child identifier appears under different parent objects of a
\* one-to-many relation, each parent gets its own child object: every row
\* with identifiers down to a one-to-many path has an object with the row's
\* child identifier under the row's parent, and an object found in a row is
\* attached under the objects of that row, never under those of another
\* parent.
C29_ChildrenSeparatePerParent ==
    phase = "done" =>
        /\ \A o \in DOMAIN tree.objs : Under(tree.objs[o].row, o)
        /\ \A r \in DOMAIN query.database : \A j \in 2..query.n :
               Present(r, j) /\ ~isOneToOne(query.kind[j]) =>
                   \E o \in DOMAIN tree.objs :
                       /\ tree.objs[o].path = j
                       /\ tree.objs[o].json["id"] = Data(r, j)
                       /\ Under(r, o)


(***************************************************************************)
(* Join builder: clone                                                     *)
(***************************************************************************)

\* The options of the minimize mode
MinimizeOptions ==
    {[minimize |-> TRUE, aliases |-> aliases] : aliases \in AliasTables}

\* The paths the two builders are asked to encode
ClonePaths == {<<"a">>, <<"b">>, <<"a", ":", "b">>, <<"b", ":", "a">>}

\* props of clone(props): undefined, or its opt
NoProps == [opt |-> NoString]

CloneProps == {NoProps} \cup {[opt |-> opt] : opt \in MinimizeOptions}

\* A builder in minimize mode was constructed; nothing is encoded yet.
InitClone ==
    /\ InserterNew
    /\ transactionCall = NotCalled
    /\ getterCall = NotCalled
    /\ Fetched
    /\ query = [n |-> 0]
    /\ \E opt \in MinimizeOptions : builder = RelationJoinBuilder(opt)
    /\ statement = [selects |-> <<>>, joins |-> <<>>, error |-> NoString]
    /\ phase = "new"
    /\ dbRows = <<>>
    /\ tree = <<>>
    /\ copy = [cloned |-> FALSE]

\* clone(props): the copy has its own opt and its own encIdx; pathInfo,
\* encodings and decodings are the objects of the original.
clone(b, props) ==
    [cloned |-> TRUE,
     opt |-> IF props.opt # NoString THEN props.opt ELSE b.opt,
     encIdx |-> b.encIdx]

\* The copy as a builder: its own fields over the maps of the original
CopyBuilder == [builder EXCEPT !.opt = copy.opt, !.encIdx = copy.encIdx]

Clone(props) ==
    /\ ~copy.cloned
    /\ copy' = clone(builder, props)
    /\ UNCHANGED <<vars, transactionCall, getterCall, cacheVars, query, builder,
                   statement, phase, dbRows, tree>>

\* this.encode(path) on the original
EncodeByOriginal(path) ==
    /\ builder' = encode(builder, path).builder
    /\ UNCHANGED <<vars, transactionCall, getterCall, cacheVars, query,
                   statement, phase, dbRows, tree, copy>>

\* copy.encode(path): the maps written are those of the original
EncodeByCopy(path) ==
    /\ copy.cloned
    /\ \E after \in {encode(CopyBuilder, path).builder} :
           /\ builder' = [builder EXCEPT !.encodings = after.encodings,
                                         !.decodings = after.decodings]
           /\ copy' = [copy EXCEPT !.encIdx = after.encIdx]
    /\ UNCHANGED <<vars, transactionCall, getterCall, cacheVars, query,
                   statement, phase, dbRows, tree>>

NextClone ==
    \/ \E props \in CloneProps : Clone(props)
    \/ \E path \in ClonePaths : EncodeByOriginal(path)
    \/ \E path \in ClonePaths : EncodeByCopy(path)

SpecClone == InitClone /\ [][NextClone]_allVars

\* C27: once the builder was cloned, whatever the original and the copy
\* encode afterwards and in whatever order, every encoded path decodes to
\* itself: no alias was handed out for two different paths.
C27_CloneKeepsAliasesDistinct ==
    copy.cloned =>
        \A path \in DOMAIN builder.encodings :
            decode(builder, builder.encodings[path]) = path

====
